---- MODULE Spec2Model ----
(***************************************************************************)
(* PodSearch: the scheduler's retry / dead-letter / permanent-failure      *)
(* stores (scheduler-step2.js, scheduler-step3.js) and the sequential      *)
(* processing queue (process-queue.js).                                    *)
(*                                                                         *)
(* Files on disk are variables; every writeFileSync is one step, so the    *)
(* states between two writes of one run are states of the model.           *)
(***************************************************************************)
EXTENDS Integers, Sequences, FiniteSets, TLC

(***************************************************************************)
(* Bounds of the model.                                                    *)
(***************************************************************************)
\* externalIds 1..NumEpisodes; a larger id is a later publishDate
NumEpisodes == 3
\* how many times a running step 3 may be stopped between two statements
MaxCrashes == 1
\* externalIds 1..NumQueued are the episodes the master trigger can find
NumQueued == 2
\* the master trigger is not run once processing-queue.json has this many entries
MaxQueueLen == 3
\* how many times cron starts a scheduler step while a step 3 is running
MaxOverlaps == 1
\* chunk locators are applied to the durations 1..MaxDuration (seconds)
MaxDuration == 450
\* and to the window lengths 1..MaxWindow (seconds)
MaxWindow == 300
\* a query has 1..MaxQueryWords words
MaxQueryWords == 4
\* a transcript has 0..MaxSegments segments
MaxSegments == 2
\* embeddings.json holds 0..MaxStored records when a rank search reads it
MaxStored == 3
\* how many times the hourly scheduler is run
MaxHourlyRuns == 3

(***************************************************************************)
(* Program constants.                                                      *)
(***************************************************************************)
MAX_RETRIES == 5
BACKOFF_MS == <<1800000, 3600000, 7200000, 14400000, 28800000>>
maxPerTopic == 3

Episodes == 1..NumEpisodes
TOPICS == <<"finance", "Kerala">>

\* the topic of an episode is fixed when it is ingested
TopicOf(e) == IF e % 2 = 1 THEN TOPICS[1] ELSE TOPICS[2]

Min(S) == CHOOSE x \in S : \A y \in S : x <= y
Max(S) == CHOOSE x \in S : \A y \in S : x >= y

VARIABLES
  episodesFile,    \* episodes.json: the externalIds in the catalogue
  queueFile,       \* scheduler-queue.json: sequence of queue entries
  dlqFile,         \* dlq.json: sequence of [episode, retryCount]
  permanentFailFile, \* permanent-fail.json: sequence of [episode]
  processedFile,   \* processed-episodes.json: sequence of simplifiedIds
  pc3,             \* position of the running step 3 ("idle": none running)
  queue,           \* step 3: the array loaded from scheduler-queue.json
  dlq,             \* step 3: the array loaded from dlq.json
  episode,         \* step 3: queue[0] as read at line 69
  slept,           \* step 3: milliseconds slept by sleep(backoff) in this run
  sawEmpty,        \* the last step-3 run logged 'Queue empty, nothing to process'
  failedRuns,      \* per episode: finished runs since its last success, none successful
  succeeded,       \* the [externalId, simplifiedId] of every entry a step-3 run completed
  crashes,         \* how many times a step-3 process was stopped part-way
  childFailure,    \* step 3: how the transcribe.js child of this run ended ("none": not run yet)
  other,           \* a second step-3 process, started while the first sleeps: [pc, queue, dlq,
                   \* episode], and overlaps, how many steps were started while a step 3 was running
  queuedStatus,    \* episodes.json: the externalIds whose record has status 'queued'
  processingQueue, \* processing-queue.json: sequence of [externalId, status, error, embeddingId]
  audioFiles,      \* AUDIO_DIR: externalIds with a downloaded audio file
  transcriptFiles, \* TRANSCRIPTIONS_DIR: externalId -> "none", "timestamped" or "empty"
  embeddings,      \* embeddings.json: the sequence of records in the file
  embeddingsShape, \* embeddings.json: "none" (no file), "object" ({episodes: [...]}) or "array" ([...])
  pqpc,            \* position of the process-queue.js process ("off": none running)
  pqI,             \* main: the loop counter i
  maxRuns,         \* main: the --max argument, 10 by default
  pqQueue,         \* processOne: the array loaded by loadQueue()
  pending,         \* processOne: index in pqQueue of the claimed entry, 0 when none
  hadWork,         \* what the last processOne call returned: "true", "false" ("none" before any)
  attempts,        \* per queue entry: how many times processOne claimed it
  search,          \* one search: [estimatedDuration, chunkDuration, boundaries, queryWords,
                   \* segments, match, embeddingsData, queryEmbedding, topK, results]
  hourly,          \* the hourly scheduler (scheduler.js): the locals of checkAndProcess and
                   \* of the runWithRetry call it is waiting for
  command          \* one runCommand call: the child, the timer and the promise returned

schedVars == <<episodesFile, queueFile, dlqFile, permanentFailFile, processedFile,
               pc3, queue, dlq, episode, slept, sawEmpty, failedRuns, succeeded, crashes, childFailure>>

otherVars == <<other>>

\* the second step-3 process: its position ("idle": none running), the arrays
\* it loaded from scheduler-queue.json and dlq.json, and queue[0] as read at line 69
otherPc == other.pc
otherQueue == other.queue
otherDlq == other.dlq
otherEpisode == other.episode
\* how many times a scheduler step was started while a step 3 was running
overlaps == other.overlaps

pqVars == <<queuedStatus, processingQueue, audioFiles, transcriptFiles, embeddings, embeddingsShape,
            pqpc, pqI, maxRuns, pqQueue, pending, hadWork, attempts>>

searchVars == <<search>>

hourlyVars == <<hourly>>

commandVars == <<command>>

\* the duration in seconds a chunk locator is called with
estimatedDuration == search.estimatedDuration
\* CHUNK_DURATION, the requested window length in seconds
chunkDuration == search.chunkDuration
\* the {start, end} a chunk locator returned
boundaries == search.boundaries
\* the lengths of the words of the query, in order
queryWords == search.queryWords
\* the transcript's segments: [seconds, includes (the query words the text includes)]
segments == search.segments
\* what the transcript search returned
match == search.match
\* rank search: embeddings.json as parsed, [shape, episodes (the embedding of each record)]
embeddingsData == search.embeddingsData
\* rank search: the vector of the query
queryEmbedding == search.queryEmbedding
\* rank search: LIMIT (search.js), topK (searchByQuery)
topK == search.topK
\* rank search: [status, ranked (the positions in embeddings.json of the records returned)]
results == search.results

NoEpisode == [simplifiedId |-> <<"none", 0>>, externalId |-> 0, inDlq |-> FALSE]

(***************************************************************************)
(* Helpers over the stores.                                                *)
(***************************************************************************)
Range(s) == {s[i] : i \in 1..Len(s)}

QueueIds(q) == {q[i].externalId : i \in 1..Len(q)}
DlqIds(d) == {d[i].episode.externalId : i \in 1..Len(d)}
PermanentFailIds(p) == {p[i].episode.externalId : i \in 1..Len(p)}

CountQueue(q, e) == Cardinality({i \in 1..Len(q) : q[i].externalId = e})
CountDlq(d, e) == Cardinality({i \in 1..Len(d) : d[i].episode.externalId = e})
CountPermanentFail(p, e) == Cardinality({i \in 1..Len(p) : p[i].episode.externalId = e})

\* dlq.find(d => d.episode?.externalId === externalId)?.retryCount || 0
RetryCountOf(d, e) ==
  LET idx == {i \in 1..Len(d) : d[i].episode.externalId = e}
  IN IF idx = {} THEN 0 ELSE d[Min(idx)].retryCount

\* dlq.filter(d => d.episode?.externalId !== externalId)
DlqWithout(d, e) == SelectSeq(d, LAMBDA x : x.episode.externalId # e)

\* BACKOFF_MS[Math.min(retryCount - 1, BACKOFF_MS.length - 1)], 1-based here
BackoffFor(r) == BACKOFF_MS[Min({r - 1, Len(BACKOFF_MS) - 1}) + 1]


(***************************************************************************)
(* scheduler-step2.js: build the queue.                                    *)
(***************************************************************************)
\* topics[topic] after the sort by publishDate, newest first
RECURSIVE SortNewestFirst(_)
SortNewestFirst(S) ==
  IF S = {} THEN <<>>
  ELSE LET m == Max(S) IN <<m>> \o SortNewestFirst(S \ {m})

TopicEpisodes(catalogue, t) == SortNewestFirst({e \in catalogue : TopicOf(e) = t})

\* `${topic}_${String(topicNum).padStart(3, '0')}` with topicNum the 1-based
\* position of the episode in its topic's sorted list
SimplifiedId(t, topicNum) == <<t, topicNum>>

\* Transcript files are named `${externalId}.txt` by every writer, so the set
\* getTranscribedIds() returns holds no simplifiedId.
TranscribedHas(simpId) == FALSE

\* TopicQueue without the test of line 79
RECURSIVE TopicQueue_NoPermSkip(_, _, _, _, _, _, _)
TopicQueue_NoPermSkip(list, t, i, count, processed, permIds, dlqIds) ==
  IF i > Len(list) \/ count >= maxPerTopic THEN <<>>
  ELSE LET ep == list[i]
           simpId == SimplifiedId(t, i)
       IN IF simpId \in processed \/ TranscribedHas(simpId)
          THEN TopicQueue_NoPermSkip(list, t, i + 1, count, processed, permIds, dlqIds)
          ELSE <<[simplifiedId |-> simpId, externalId |-> ep, inDlq |-> ep \in dlqIds]>>
               \o TopicQueue_NoPermSkip(list, t, i + 1, count + 1, processed, permIds, dlqIds)

\* the inner loop of lines 71-91 from position i on, with `count` entries pushed
RECURSIVE TopicQueue(_, _, _, _, _, _, _)
TopicQueue(list, t, i, count, processed, permIds, dlqIds) ==
  IF i > Len(list) \/ count >= maxPerTopic THEN <<>>
  ELSE LET ep == list[i]
           simpId == SimplifiedId(t, i)
       IN IF simpId \in processed \/ TranscribedHas(simpId) \/ ep \in permIds
          THEN TopicQueue(list, t, i + 1, count, processed, permIds, dlqIds)
          ELSE <<[simplifiedId |-> simpId, externalId |-> ep, inDlq |-> ep \in dlqIds]>>
               \o TopicQueue(list, t, i + 1, count + 1, processed, permIds, dlqIds)

\* the outer loop of lines 69-92 over the topics present, in catalogue order
RECURSIVE BuildFrom(_, _, _, _, _)
BuildFrom(k, catalogue, processed, permIds, dlqIds) ==
  IF k > Len(TOPICS) THEN <<>>
  ELSE TopicQueue(TopicEpisodes(catalogue, TOPICS[k]), TOPICS[k], 1, 0,
                  processed, permIds, dlqIds)
       \o BuildFrom(k + 1, catalogue, processed, permIds, dlqIds)

BuildQueue(catalogue, processedSeq, permSeq, dlqSeq) ==
  BuildFrom(1, catalogue, Range(processedSeq), PermanentFailIds(permSeq), DlqIds(dlqSeq))

\* the orchestrator starts a step whether or not a step-3 process is still
\* running (lines 153-202 hold no test for one); `overlaps` counts such starts
StartStep ==
  IF otherPc = "idle" THEN UNCHANGED other
  ELSE overlaps < MaxOverlaps /\ other' = [other EXCEPT !.overlaps = @ + 1]

\* one run of scheduler-step2.js (synchronous, one write at its end)
Step2 ==
  /\ pc3 = "idle"
  /\ StartStep
  /\ queueFile' = BuildQueue(episodesFile, processedFile, permanentFailFile, dlqFile)
  /\ UNCHANGED <<episodesFile, dlqFile, permanentFailFile, processedFile,
                 pc3, queue, dlq, episode, slept, sawEmpty, failedRuns, succeeded, crashes, childFailure>>
  /\ UNCHANGED pqVars
  /\ UNCHANGED searchVars
  /\ UNCHANGED hourlyVars
  /\ UNCHANGED commandVars

\* What a feed can list: the latest episodes, a run lo..hi of publication order.
Catalogues == {lo..hi : lo \in Episodes, hi \in Episodes}

\* a feed never goes back to older episodes
NewerCatalogue(old, new) ==
  /\ new # {}
  /\ old # {} => (Min(new) >= Min(old) /\ Max(new) >= Max(old))

\* scheduler-step1.js running fetch-episodes.js: episodes.json is rewritten
\* with what the feeds list now
Step1 ==
  /\ pc3 = "idle"
  /\ StartStep
  /\ \E c \in Catalogues :
       /\ c # episodesFile
       /\ NewerCatalogue(episodesFile, c)
       /\ episodesFile' = c
  /\ UNCHANGED pqVars
  /\ UNCHANGED searchVars
  /\ UNCHANGED hourlyVars
  /\ UNCHANGED commandVars
  /\ UNCHANGED <<queueFile, dlqFile, permanentFailFile, processedFile,
                 pc3, queue, dlq, episode, slept, sawEmpty, failedRuns, succeeded, crashes, childFailure>>


(***************************************************************************)
(* scheduler-step3.js: process the head of the queue.                      *)
(***************************************************************************)
\* the `episode` field of a DLQ or permanent-fail entry; its readers use only
\* episode.externalId
Snapshot(ep) == [externalId |-> ep.externalId]

\* MaxRetriesExceeded with > for >=
MaxRetriesExceeded_OffByOne(r) == r > MAX_RETRIES

\* line 79: if (retryCount >= MAX_RETRIES)
MaxRetriesExceeded(r) == r >= MAX_RETRIES

\* line 96-99: the wait before the child is started (0: no sleep)
BackoffWait(ep, r) == IF ep.inDlq /\ r > 0 THEN BackoffFor(r) ELSE 0

\* DlqAfterFailure storing retryCount unchanged
DlqAfterFailure_NoIncrement(d, ep, r) ==
  Append(DlqWithout(d, ep.externalId), [episode |-> Snapshot(ep), retryCount |-> r])

\* DlqAfterFailure counting a failure twice
DlqAfterFailure_PlusTwo(d, ep, r) ==
  Append(DlqWithout(d, ep.externalId), [episode |-> Snapshot(ep), retryCount |-> r + 2])

\* lines 129-135: the DLQ array written on the failure path
DlqAfterFailure(d, ep, r) ==
  Append(DlqWithout(d, ep.externalId), [episode |-> Snapshot(ep), retryCount |-> r + 1])

\* Requeue as queue.shift() alone
Requeue_Drop(q) == Tail(q)

\* line 139: queue.push(queue.shift())
Requeue(q) == Append(Tail(q), Head(q))

\* lines 107-111: processed-episodes.json after the success path
MarkProcessed(p, simpId) == IF simpId \in Range(p) THEN p ELSE Append(p, simpId)

\* the retryCount this run read at lines 75-77
retryCount == RetryCountOf(dlq, episode.externalId)

Step3Return ==
  /\ pc3' = "idle"
  /\ queue' = <<>>
  /\ dlq' = <<>>
  /\ episode' = NoEpisode
  /\ slept' = 0
  /\ childFailure' = "none"

\* lines 62-66: the queue is empty
S3QueueEmpty ==
  /\ pc3 = "idle"
  /\ StartStep
  /\ queueFile = <<>>
  /\ ~sawEmpty
  /\ sawEmpty' = TRUE
  /\ UNCHANGED <<episodesFile, queueFile, dlqFile, permanentFailFile, processedFile,
                 pc3, queue, dlq, episode, slept, failedRuns, succeeded, crashes, childFailure>>
  /\ UNCHANGED pqVars
  /\ UNCHANGED searchVars
  /\ UNCHANGED hourlyVars
  /\ UNCHANGED commandVars

\* lines 62-79: load the queue and the DLQ, take the head, look up retryCount
S3Load ==
  /\ pc3 = "idle"
  /\ StartStep
  /\ queueFile # <<>>
  /\ queue' = queueFile
  /\ episode' = Head(queueFile)
  /\ dlq' = dlqFile
  /\ pc3' = IF MaxRetriesExceeded(RetryCountOf(dlqFile, Head(queueFile).externalId))
            THEN "permfail" ELSE "backoff"
  /\ slept' = 0
  /\ sawEmpty' = FALSE
  /\ UNCHANGED <<episodesFile, queueFile, dlqFile, permanentFailFile, processedFile,
                 failedRuns, succeeded, crashes, childFailure>>
  /\ UNCHANGED pqVars
  /\ UNCHANGED searchVars
  /\ UNCHANGED hourlyVars
  /\ UNCHANGED commandVars

\* lines 81-83: append to permanent-fail.json
S3SavePermanentFail ==
  /\ pc3 = "permfail"
  /\ permanentFailFile' = Append(permanentFailFile, [episode |-> Snapshot(episode)])
  /\ pc3' = "permfail_dlq"
  /\ UNCHANGED <<episodesFile, queueFile, dlqFile, processedFile,
                 queue, dlq, episode, slept, sawEmpty, failedRuns, succeeded, crashes, childFailure>>
  /\ UNCHANGED pqVars
  /\ UNCHANGED searchVars
  /\ UNCHANGED hourlyVars
  /\ UNCHANGED commandVars
  /\ UNCHANGED otherVars

\* lines 86-88: queue.shift(), then dlq.json without the episode
S3PermanentFailSaveDlq ==
  /\ pc3 = "permfail_dlq"
  /\ queue' = Tail(queue)
  /\ dlqFile' = DlqWithout(dlq, episode.externalId)
  /\ pc3' = "permfail_queue"
  /\ UNCHANGED <<episodesFile, queueFile, permanentFailFile, processedFile,
                 dlq, episode, slept, sawEmpty, failedRuns, succeeded, crashes, childFailure>>
  /\ UNCHANGED pqVars
  /\ UNCHANGED searchVars
  /\ UNCHANGED hourlyVars
  /\ UNCHANGED commandVars
  /\ UNCHANGED otherVars

\* lines 89-92: scheduler-queue.json without the head, return
S3PermanentFailSaveQueue ==
  /\ pc3 = "permfail_queue"
  /\ queueFile' = queue
  /\ failedRuns' = [failedRuns EXCEPT ![episode.externalId] = @ + 1]
  /\ Step3Return
  /\ UNCHANGED <<episodesFile, dlqFile, permanentFailFile, processedFile,
                 sawEmpty, succeeded, crashes>>
  /\ UNCHANGED pqVars
  /\ UNCHANGED searchVars
  /\ UNCHANGED hourlyVars
  /\ UNCHANGED commandVars
  /\ UNCHANGED otherVars

\* lines 96-100: sleep(backoff) when the entry is flagged inDlq and was retried
S3Backoff ==
  /\ pc3 = "backoff"
  /\ slept' = BackoffWait(episode, retryCount)
  /\ pc3' = "child"
  /\ UNCHANGED <<episodesFile, queueFile, dlqFile, permanentFailFile, processedFile,
                 queue, dlq, episode, sawEmpty, failedRuns, succeeded, crashes, childFailure>>
  /\ UNCHANGED pqVars
  /\ UNCHANGED searchVars
  /\ UNCHANGED hourlyVars
  /\ UNCHANGED commandVars
  /\ UNCHANGED otherVars

\* transcribe.js, transcribeEpisode (lines 100-183): the stage at which the
\* episode's pipeline breaks.  Download and transcription can throw; the
\* embedding stage always does, createEpisodeEmbedding reading the undeclared
\* TRANSCRIPTS_DIR (generate-embeddings.js line 75).  Every one of them is
\* caught (lines 153, 168).
StageFailures == {"download", "transcribe", "embed"}

\* how a `node scripts/transcribe.js 1` child can end: killed at the timeout,
\* ended with a non-zero code before processing (module load error, crash), or
\* run to its end after one of the caught failures
ChildEndings == {"timeout", "exit1"} \cup StageFailures

\* transcribe.js lines 188-226: the exit code of a child that ran to its end;
\* the rejection of processAllEpisodes (line 208) goes to console.error
ExitCode(ending) == IF ending = "exit1" THEN 1 ELSE 0

\* runCommand, lines 37-52: resolve() on close with code 0 and no timeout
Resolves(ending) == ending # "timeout" /\ ExitCode(ending) = 0

\* line 104: await runCommand('node', ['scripts/transcribe.js', '1'])
S3RunCommand ==
  /\ pc3 = "child"
  /\ \E ending \in ChildEndings :
       /\ childFailure' = ending
       /\ pc3' = IF Resolves(ending) THEN "ok_processed" ELSE "fail_dlq"
  /\ UNCHANGED <<episodesFile, queueFile, dlqFile, permanentFailFile, processedFile,
                 queue, dlq, episode, slept, sawEmpty, failedRuns, succeeded, crashes>>
  /\ UNCHANGED pqVars
  /\ UNCHANGED searchVars
  /\ UNCHANGED hourlyVars
  /\ UNCHANGED commandVars
  /\ UNCHANGED otherVars

\* lines 107-111: mark the simplifiedId processed
S3MarkProcessed ==
  /\ pc3 = "ok_processed"
  /\ processedFile' = MarkProcessed(processedFile, episode.simplifiedId)
  /\ pc3' = "ok_queue"
  /\ UNCHANGED <<episodesFile, queueFile, dlqFile, permanentFailFile,
                 queue, dlq, episode, slept, sawEmpty, failedRuns, succeeded, crashes, childFailure>>
  /\ UNCHANGED pqVars
  /\ UNCHANGED searchVars
  /\ UNCHANGED hourlyVars
  /\ UNCHANGED commandVars
  /\ UNCHANGED otherVars

\* lines 114-115: queue.shift(), save the queue
S3SuccessSaveQueue ==
  /\ pc3 = "ok_queue"
  /\ queue' = Tail(queue)
  /\ queueFile' = Tail(queue)
  /\ pc3' = "ok_dlq"
  /\ UNCHANGED <<episodesFile, dlqFile, permanentFailFile, processedFile,
                 dlq, episode, slept, sawEmpty, failedRuns, succeeded, crashes, childFailure>>
  /\ UNCHANGED pqVars
  /\ UNCHANGED searchVars
  /\ UNCHANGED hourlyVars
  /\ UNCHANGED commandVars
  /\ UNCHANGED otherVars

\* lines 118-123: drop the DLQ entry when there was one
S3SuccessSaveDlq ==
  /\ pc3 = "ok_dlq"
  /\ dlqFile' = IF episode.externalId \in DlqIds(dlq)
                THEN DlqWithout(dlq, episode.externalId) ELSE dlqFile
  /\ failedRuns' = [failedRuns EXCEPT ![episode.externalId] = 0]
  /\ succeeded' = succeeded \cup {[externalId |-> episode.externalId,
                                    simplifiedId |-> episode.simplifiedId]}
  /\ Step3Return
  /\ UNCHANGED <<episodesFile, queueFile, permanentFailFile, processedFile,
                 sawEmpty, crashes>>
  /\ UNCHANGED pqVars
  /\ UNCHANGED searchVars
  /\ UNCHANGED hourlyVars
  /\ UNCHANGED commandVars
  /\ UNCHANGED otherVars

\* lines 129-136: add or update the DLQ entry
S3FailSaveDlq ==
  /\ pc3 = "fail_dlq"
  /\ dlqFile' = DlqAfterFailure(dlq, episode, retryCount)
  /\ pc3' = "fail_queue"
  /\ UNCHANGED <<episodesFile, queueFile, permanentFailFile, processedFile,
                 queue, dlq, episode, slept, sawEmpty, failedRuns, succeeded, crashes, childFailure>>
  /\ UNCHANGED pqVars
  /\ UNCHANGED searchVars
  /\ UNCHANGED hourlyVars
  /\ UNCHANGED commandVars
  /\ UNCHANGED otherVars

\* lines 139-142: move the failed entry to the back, save the queue
S3FailSaveQueue ==
  /\ pc3 = "fail_queue"
  /\ queueFile' = Requeue(queue)
  /\ failedRuns' = [failedRuns EXCEPT ![episode.externalId] = @ + 1]
  /\ Step3Return
  /\ UNCHANGED <<episodesFile, dlqFile, permanentFailFile, processedFile,
                 sawEmpty, succeeded, crashes>>
  /\ UNCHANGED pqVars
  /\ UNCHANGED searchVars
  /\ UNCHANGED hourlyVars
  /\ UNCHANGED commandVars
  /\ UNCHANGED otherVars

\* the step-3 process is stopped (killed, machine restart) between two statements
S3Stopped ==
  /\ pc3 # "idle"
  /\ crashes < MaxCrashes
  /\ crashes' = crashes + 1
  /\ Step3Return
  /\ UNCHANGED <<episodesFile, queueFile, dlqFile, permanentFailFile, processedFile,
                 sawEmpty, failedRuns, succeeded>>
  /\ UNCHANGED pqVars
  /\ UNCHANGED searchVars
  /\ UNCHANGED hourlyVars
  /\ UNCHANGED commandVars
  /\ UNCHANGED otherVars

SchedInit ==
  /\ episodesFile = {}
  /\ queueFile = <<>>
  /\ dlqFile = <<>>
  /\ permanentFailFile = <<>>
  /\ processedFile = <<>>
  /\ pc3 = "idle"
  /\ queue = <<>>
  /\ dlq = <<>>
  /\ episode = NoEpisode
  /\ slept = 0
  /\ sawEmpty = FALSE
  /\ failedRuns = [e \in Episodes |-> 0]
  /\ succeeded = {}
  /\ crashes = 0
  /\ childFailure = "none"

(***************************************************************************)
(* scheduler-orchestrator.js under cron: a second step-3 process.          *)
(***************************************************************************)
\* scheduler-orchestrator.js line 113: 'Cron: Every 30 min', in milliseconds
CronPeriodMs == 1800000

Minutes == 0..59

\* lines 165-189: the step the orchestrator runs when invoked at `minute`
\* with queueLen entries in scheduler-queue.json (0: 'Nothing to do')
NextStep(minute, queueLen) ==
  IF minute = 0 THEN 1
  ELSE IF minute = 5 THEN 2
  ELSE IF minute = 10 \/ minute = 40 THEN 3
  ELSE IF queueLen > 0 THEN 3 ELSE 0

\* the step-3 process awaits sleep(backoff) at line 99 for at least one cron period
SleepsThroughCron ==
  pc3 = "backoff" /\ BackoffWait(episode, retryCount) >= CronPeriodMs

\* the second process has returned
OtherReturned ==
  [pc |-> "idle", queue |-> <<>>, dlq |-> <<>>, episode |-> NoEpisode, overlaps |-> overlaps]

\* Cron invokes the orchestrator while a step-3 process is asleep; nothing in
\* lines 153-202 looks for a running step, so runStep spawns scheduler-step3.js
\* again, which loads the files as they are (step 3, lines 62-79)
CronStep3 ==
  /\ SleepsThroughCron
  /\ otherPc = "idle"
  /\ overlaps < MaxOverlaps
  /\ queueFile # <<>>
  /\ \E minute \in Minutes : NextStep(minute, Len(queueFile)) = 3
  /\ other' = [pc |-> IF MaxRetriesExceeded(RetryCountOf(dlqFile, Head(queueFile).externalId))
                      THEN "permfail" ELSE "backoff",
               queue |-> queueFile,
               dlq |-> dlqFile,
               episode |-> Head(queueFile),
               overlaps |-> overlaps + 1]
  /\ UNCHANGED schedVars
  /\ UNCHANGED pqVars
  /\ UNCHANGED searchVars
  /\ UNCHANGED hourlyVars
  /\ UNCHANGED commandVars

\* The second process read the files the first had read, so it sleeps as long
\* and wakes at least a cron period after the first woke, which is after the
\* first returned (its child is killed after 300 s).  Lines 96-104: the sleep
\* ends and the child runs.
OtherRunCommand ==
  /\ otherPc = "backoff"
  /\ pc3 = "idle"
  /\ \E ending \in ChildEndings :
       other' = [other EXCEPT !.pc = IF Resolves(ending) THEN "ok_processed" ELSE "fail_dlq"]
  /\ UNCHANGED schedVars
  /\ UNCHANGED pqVars
  /\ UNCHANGED searchVars
  /\ UNCHANGED hourlyVars
  /\ UNCHANGED commandVars

\* lines 107-111 in the second process
OtherMarkProcessed ==
  /\ otherPc = "ok_processed"
  /\ pc3 = "idle"
  /\ processedFile' = MarkProcessed(processedFile, otherEpisode.simplifiedId)
  /\ other' = [other EXCEPT !.pc = "ok_queue"]
  /\ UNCHANGED <<episodesFile, queueFile, dlqFile, permanentFailFile,
                 pc3, queue, dlq, episode, slept, sawEmpty, failedRuns, succeeded, crashes, childFailure>>
  /\ UNCHANGED pqVars
  /\ UNCHANGED searchVars
  /\ UNCHANGED hourlyVars
  /\ UNCHANGED commandVars

\* lines 114-115 in the second process
OtherSuccessSaveQueue ==
  /\ otherPc = "ok_queue"
  /\ pc3 = "idle"
  /\ queueFile' = Tail(otherQueue)
  /\ other' = [other EXCEPT !.pc = "ok_dlq", !.queue = Tail(otherQueue)]
  /\ UNCHANGED <<episodesFile, dlqFile, permanentFailFile, processedFile,
                 pc3, queue, dlq, episode, slept, sawEmpty, failedRuns, succeeded, crashes, childFailure>>
  /\ UNCHANGED pqVars
  /\ UNCHANGED searchVars
  /\ UNCHANGED hourlyVars
  /\ UNCHANGED commandVars

\* lines 118-123 in the second process
OtherSuccessSaveDlq ==
  /\ otherPc = "ok_dlq"
  /\ pc3 = "idle"
  /\ dlqFile' = IF otherEpisode.externalId \in DlqIds(otherDlq)
                THEN DlqWithout(otherDlq, otherEpisode.externalId) ELSE dlqFile
  /\ failedRuns' = [failedRuns EXCEPT ![otherEpisode.externalId] = 0]
  /\ succeeded' = succeeded \cup {[externalId |-> otherEpisode.externalId,
                                    simplifiedId |-> otherEpisode.simplifiedId]}
  /\ other' = OtherReturned
  /\ UNCHANGED <<episodesFile, queueFile, permanentFailFile, processedFile,
                 pc3, queue, dlq, episode, slept, sawEmpty, crashes, childFailure>>
  /\ UNCHANGED pqVars
  /\ UNCHANGED searchVars
  /\ UNCHANGED hourlyVars
  /\ UNCHANGED commandVars

\* lines 129-136 in the second process
OtherFailSaveDlq ==
  /\ otherPc = "fail_dlq"
  /\ pc3 = "idle"
  /\ dlqFile' = DlqAfterFailure(otherDlq, otherEpisode,
                                RetryCountOf(otherDlq, otherEpisode.externalId))
  /\ other' = [other EXCEPT !.pc = "fail_queue"]
  /\ UNCHANGED <<episodesFile, queueFile, permanentFailFile, processedFile,
                 pc3, queue, dlq, episode, slept, sawEmpty, failedRuns, succeeded, crashes, childFailure>>
  /\ UNCHANGED pqVars
  /\ UNCHANGED searchVars
  /\ UNCHANGED hourlyVars
  /\ UNCHANGED commandVars

\* lines 139-142 in the second process
OtherFailSaveQueue ==
  /\ otherPc = "fail_queue"
  /\ pc3 = "idle"
  /\ queueFile' = Requeue(otherQueue)
  /\ failedRuns' = [failedRuns EXCEPT ![otherEpisode.externalId] = @ + 1]
  /\ other' = OtherReturned
  /\ UNCHANGED <<episodesFile, dlqFile, permanentFailFile, processedFile,
                 pc3, queue, dlq, episode, slept, sawEmpty, succeeded, crashes, childFailure>>
  /\ UNCHANGED pqVars
  /\ UNCHANGED searchVars
  /\ UNCHANGED hourlyVars
  /\ UNCHANGED commandVars

(***************************************************************************)
(* scheduler.js (master-trigger part): fill processing-queue.json.         *)
(***************************************************************************)
\* the scheduler's own stores and step-3 position, untouched by process-queue
schedLocal == <<queueFile, dlqFile, permanentFailFile, processedFile,
                pc3, queue, dlq, episode, slept, sawEmpty, failedRuns, succeeded, crashes, childFailure,
                other>>

QueuedEpisodes == 1..NumQueued

RECURSIVE SeqOfSet(_)
SeqOfSet(S) == IF S = {} THEN <<>> ELSE LET m == Min(S) IN <<m>> \o SeqOfSet(S \ {m})

PQIds(q) == {q[i].externalId : i \in 1..Len(q)}

PendingEntry(e) == [externalId |-> e, status |-> "pending", error |-> "", embeddingId |-> <<"", 0>>]

\* lines 405-415: one entry per record of allEpisodes with status 'queued'
\* whose externalId is not in existingIds, the ids of the queue as loaded
RECURSIVE QueueNew(_, _)
QueueNew(eps, existingIds) ==
  IF eps = <<>> THEN <<>>
  ELSE (IF Head(eps) \in existingIds THEN <<>> ELSE <<PendingEntry(Head(eps))>>)
       \o QueueNew(Tail(eps), existingIds)

\* lines 375-417: fetchEpisodesForTopic returns, per topic, the listed episodes
\* whose key is not in episodes.json as it was before this run; `found` are the
\* new episodes of this run, `again` those a second topic lists as well and
\* `thrice` those a third topic lists too
MasterTrigger ==
  /\ pqpc = "off"
  /\ pc3 = "idle"
  /\ \E found \in SUBSET (QueuedEpisodes \ episodesFile) :
     \E again \in SUBSET found :
     \E thrice \in SUBSET again :
       LET newEps == SeqOfSet(found) \o SeqOfSet(again) \o SeqOfSet(thrice)
           allEpisodes == SeqOfSet(queuedStatus \cap episodesFile) \o newEps
       IN /\ found # {}
          /\ Len(processingQueue) + Len(newEps) <= MaxQueueLen
          /\ episodesFile' = episodesFile \cup found
          /\ queuedStatus' = (queuedStatus \cap episodesFile) \cup found
          /\ processingQueue' = processingQueue \o QueueNew(allEpisodes, PQIds(processingQueue))
          /\ attempts' = attempts \o [i \in 1..Len(QueueNew(allEpisodes, PQIds(processingQueue))) |-> 0]
  /\ UNCHANGED <<audioFiles, transcriptFiles, embeddings, embeddingsShape, pqpc, pqI, maxRuns,
                 pqQueue, pending, hadWork>>
  /\ UNCHANGED schedLocal
  /\ UNCHANGED searchVars
  /\ UNCHANGED hourlyVars
  /\ UNCHANGED commandVars

\* fetch-episodes.js run on its own: episodes.json is rewritten with what the
\* feeds list now (the latest episodes, as in Step1), in records that carry no
\* status field
FetchEpisodes ==
  /\ pqpc = "off"
  /\ pc3 = "idle"
  /\ \E c \in {lo..hi : lo \in QueuedEpisodes, hi \in QueuedEpisodes} :
       /\ c # episodesFile
       /\ NewerCatalogue(episodesFile, c)
       /\ episodesFile' = c
  /\ queuedStatus' = {}
  /\ UNCHANGED <<processingQueue, audioFiles, transcriptFiles, embeddings, embeddingsShape,
                 pqpc, pqI, maxRuns, pqQueue, pending, hadWork, attempts>>
  /\ UNCHANGED schedLocal
  /\ UNCHANGED searchVars
  /\ UNCHANGED hourlyVars
  /\ UNCHANGED commandVars

(***************************************************************************)
(* process-queue.js                                                        *)
(***************************************************************************)
\* line 286: parseInt(--max) || 10
DefaultMaxRuns == 10
MaxRunsArgs == {1, DefaultMaxRuns}

\* FindPending that also picks entries in status error
FindPending_RetryErrors(q) ==
  LET idx == {i \in 1..Len(q) : q[i].status \in {"pending", "error"}}
  IN IF idx = {} THEN 0 ELSE Min(idx)

\* FindPending that picks the last pending entry
FindPending_Last(q) ==
  LET idx == {i \in 1..Len(q) : q[i].status = "pending"}
  IN IF idx = {} THEN 0 ELSE Max(idx)

\* line 218: queue.find(e => e.status === 'pending'), as an index (0: undefined)
FindPending(q) ==
  LET idx == {i \in 1..Len(q) : q[i].status = "pending"}
  IN IF idx = {} THEN 0 ELSE Min(idx)

\* line 173: (episode.topic || 'unknown').replace(/[^a-z]/g, '_').substring(0, 20)
SafeTopic(topic) == IF topic = "finance" THEN "finance" ELSE "_erala"

\* lines 45-49: loadEmbeddings() returns data.episodes || [], so the records of
\* a file that is a bare array are not seen
LoadEmbeddings(embs, shape) == IF shape = "object" THEN embs ELSE <<>>

\* lines 171-174: `${safeTopic}_${String(episodeNum).padStart(3, '0')}`
FinalId(embs, topic) ==
  <<SafeTopic(topic), Cardinality({i \in 1..Len(embs) : embs[i].topic = topic}) + 1>>

\* processOne returns to main's loop (lines 288-292)
ReturnToMain(work) ==
  /\ hadWork' = IF work THEN "true" ELSE "false"
  /\ pqI' = IF work THEN pqI + 1 ELSE 0
  /\ pqpc' = IF work THEN "loop" ELSE "off"
  /\ pqQueue' = <<>>
  /\ pending' = 0

\* CatchError that puts the entry back to pending
CatchError_Requeue(msg) ==
  /\ processingQueue' = [pqQueue EXCEPT ![pending].status = "pending", ![pending].error = msg]
  /\ ReturnToMain(TRUE)

\* lines 273-276: the catch block
CatchError(msg) ==
  /\ processingQueue' = [pqQueue EXCEPT ![pending].status = "error", ![pending].error = msg]
  /\ ReturnToMain(TRUE)

\* lines 283-286: a process-queue.js process starts
PQStart ==
  /\ pqpc = "off"
  /\ pc3 = "idle"
  /\ \E m \in MaxRunsArgs : maxRuns' = m
  /\ pqI' = 0
  /\ pqpc' = "loop"
  /\ hadWork' = "none"
  /\ UNCHANGED <<episodesFile, queuedStatus, processingQueue, audioFiles, transcriptFiles,
                 embeddings, embeddingsShape, pqQueue, pending, attempts>>
  /\ UNCHANGED schedLocal
  /\ UNCHANGED searchVars
  /\ UNCHANGED hourlyVars
  /\ UNCHANGED commandVars

\* lines 288, 294-306: the loop ran maxRuns times; print the stats and exit
PQMainEnd ==
  /\ pqpc = "loop"
  /\ pqI >= maxRuns
  /\ pqpc' = "off"
  /\ pqI' = 0
  /\ UNCHANGED <<episodesFile, queuedStatus, processingQueue, audioFiles, transcriptFiles,
                 embeddings, embeddingsShape, maxRuns, pqQueue, pending, hadWork, attempts>>
  /\ UNCHANGED schedLocal
  /\ UNCHANGED searchVars
  /\ UNCHANGED hourlyVars
  /\ UNCHANGED commandVars

\* lines 215-223: no pending entry, return false
P1NoPending ==
  /\ pqpc = "loop"
  /\ pqI < maxRuns
  /\ FindPending(processingQueue) = 0
  /\ ReturnToMain(FALSE)
  /\ UNCHANGED <<episodesFile, queuedStatus, processingQueue, audioFiles, transcriptFiles,
                 embeddings, embeddingsShape, maxRuns, attempts>>
  /\ UNCHANGED schedLocal
  /\ UNCHANGED searchVars
  /\ UNCHANGED hourlyVars
  /\ UNCHANGED commandVars

\* lines 215-228: claim the first pending entry and save the queue
P1Claim ==
  /\ pqpc = "loop"
  /\ pqI < maxRuns
  /\ FindPending(processingQueue) # 0
  /\ LET k == FindPending(processingQueue)
         q == [processingQueue EXCEPT ![k].status = "processing"]
     IN /\ pending' = k
        /\ pqQueue' = q
        /\ processingQueue' = q
        /\ attempts' = [attempts EXCEPT ![k] = @ + 1]
  /\ pqpc' = "lookup"
  /\ UNCHANGED <<episodesFile, queuedStatus, audioFiles, transcriptFiles, embeddings, embeddingsShape,
                 pqI, maxRuns, hadWork>>
  /\ UNCHANGED schedLocal
  /\ UNCHANGED searchVars
  /\ UNCHANGED hourlyVars
  /\ UNCHANGED commandVars

\* lines 231-240: the episode is not in episodes.json
P1NotFound ==
  /\ pqpc = "lookup"
  /\ pqQueue[pending].externalId \notin episodesFile
  /\ CatchError("Episode not found")
  /\ UNCHANGED <<episodesFile, queuedStatus, audioFiles, transcriptFiles, embeddings, embeddingsShape,
                 maxRuns, attempts>>
  /\ UNCHANGED schedLocal
  /\ UNCHANGED searchVars
  /\ UNCHANGED hourlyVars
  /\ UNCHANGED commandVars

\* lines 231-250: the episode is found; every record the fetchers write has an
\* audioUrl (fetchFeedEpisodes keeps only items with an enclosure)
P1Found ==
  /\ pqpc = "lookup"
  /\ pqQueue[pending].externalId \in episodesFile
  /\ pqpc' = "download"
  /\ UNCHANGED <<episodesFile, queuedStatus, processingQueue, audioFiles, transcriptFiles,
                 embeddings, embeddingsShape, pqI, maxRuns, pqQueue, pending, hadWork, attempts>>
  /\ UNCHANGED schedLocal
  /\ UNCHANGED searchVars
  /\ UNCHANGED hourlyVars
  /\ UNCHANGED commandVars

\* lines 58-65: the audio file is already there
P1DownloadExists ==
  /\ pqpc = "download"
  /\ pqQueue[pending].externalId \in audioFiles
  /\ pqpc' = "transcribe"
  /\ UNCHANGED <<episodesFile, queuedStatus, processingQueue, audioFiles, transcriptFiles,
                 embeddings, embeddingsShape, pqI, maxRuns, pqQueue, pending, hadWork, attempts>>
  /\ UNCHANGED schedLocal
  /\ UNCHANGED searchVars
  /\ UNCHANGED hourlyVars
  /\ UNCHANGED commandVars

\* lines 69-74, curl fails: execSync throws inside the executor, the promise
\* rejects and the catch block runs; a transfer that broke off part-way
\* leaves what curl had written to audioPath
P1DownloadFails ==
  /\ pqpc = "download"
  /\ pqQueue[pending].externalId \notin audioFiles
  /\ \E partial \in BOOLEAN :
       audioFiles' = IF partial THEN audioFiles \cup {pqQueue[pending].externalId}
                     ELSE audioFiles
  /\ CatchError("download")
  /\ UNCHANGED <<episodesFile, queuedStatus, transcriptFiles, embeddings, embeddingsShape,
                 maxRuns, attempts>>
  /\ UNCHANGED schedLocal
  /\ UNCHANGED searchVars
  /\ UNCHANGED hourlyVars
  /\ UNCHANGED commandVars

\* lines 69-74, curl succeeds: execSync returns, its second argument is never
\* called, the promise stays pending and the process ends with nothing left to run
P1DownloadNeverSettles ==
  /\ pqpc = "download"
  /\ pqQueue[pending].externalId \notin audioFiles
  /\ audioFiles' = audioFiles \cup {pqQueue[pending].externalId}
  /\ pqpc' = "off"
  /\ pqI' = 0
  /\ pqQueue' = <<>>
  /\ pending' = 0
  /\ UNCHANGED <<episodesFile, queuedStatus, processingQueue, transcriptFiles, embeddings, embeddingsShape,
                 maxRuns, hadWork, attempts>>
  /\ UNCHANGED schedLocal
  /\ UNCHANGED searchVars
  /\ UNCHANGED hourlyVars
  /\ UNCHANGED commandVars

\* P1TranscribeExists that sends the audio to the service all the same
P1TranscribeExists_Again ==
  /\ pqpc = "transcribe"
  /\ transcriptFiles[pqQueue[pending].externalId] # "none"
  /\ transcriptFiles' = [transcriptFiles EXCEPT ![pqQueue[pending].externalId] = "timestamped"]
  /\ pqpc' = "embed"
  /\ UNCHANGED <<episodesFile, queuedStatus, processingQueue, audioFiles,
                 embeddings, embeddingsShape, pqI, maxRuns, pqQueue, pending, hadWork, attempts>>
  /\ UNCHANGED schedLocal
  /\ UNCHANGED searchVars
  /\ UNCHANGED hourlyVars
  /\ UNCHANGED commandVars

\* lines 80-86: the transcript file is already there
P1TranscribeExists ==
  /\ pqpc = "transcribe"
  /\ transcriptFiles[pqQueue[pending].externalId] # "none"
  /\ pqpc' = "embed"
  /\ UNCHANGED <<episodesFile, queuedStatus, processingQueue, audioFiles, transcriptFiles,
                 embeddings, embeddingsShape, pqI, maxRuns, pqQueue, pending, hadWork, attempts>>
  /\ UNCHANGED schedLocal
  /\ UNCHANGED searchVars
  /\ UNCHANGED hourlyVars
  /\ UNCHANGED commandVars

\* lines 97-105: the transcription call fails
P1TranscribeFails ==
  /\ pqpc = "transcribe"
  /\ transcriptFiles[pqQueue[pending].externalId] = "none"
  /\ CatchError("transcribe")
  /\ UNCHANGED <<episodesFile, queuedStatus, audioFiles, transcriptFiles, embeddings, embeddingsShape,
                 maxRuns, attempts>>
  /\ UNCHANGED schedLocal
  /\ UNCHANGED searchVars
  /\ UNCHANGED hourlyVars
  /\ UNCHANGED commandVars

\* lines 107-120: the transcript is written, one "[start --> end] text" line
\* per segment, the empty string when the answer has no segments
P1Transcribe ==
  /\ pqpc = "transcribe"
  /\ transcriptFiles[pqQueue[pending].externalId] = "none"
  /\ \E hasSegments \in BOOLEAN :
       transcriptFiles' = [transcriptFiles EXCEPT ![pqQueue[pending].externalId] =
                             IF hasSegments THEN "timestamped" ELSE "empty"]
  /\ pqpc' = "embed"
  /\ UNCHANGED <<episodesFile, queuedStatus, processingQueue, audioFiles,
                 embeddings, embeddingsShape, pqI, maxRuns, pqQueue, pending, hadWork, attempts>>
  /\ UNCHANGED schedLocal
  /\ UNCHANGED searchVars
  /\ UNCHANGED hourlyVars
  /\ UNCHANGED commandVars

\* ValidTranscript that takes every transcript file that exists
ValidTranscript_AnyFile(t) == t # "none"

\* lines 137-148: line 145's test for '[00:' or '-->'
ValidTranscript(t) == t = "timestamped"

\* lines 134-148: no usable transcript, generateEmbedding returns null
P1EmbedSkipped ==
  /\ pqpc = "embed"
  /\ ~ValidTranscript(transcriptFiles[pqQueue[pending].externalId])
  /\ pqQueue' = [pqQueue EXCEPT ![pending].embeddingId = <<"", 0>>]
  /\ pqpc' = "cleanup"
  /\ UNCHANGED <<episodesFile, queuedStatus, processingQueue, audioFiles, transcriptFiles,
                 embeddings, embeddingsShape, pqI, maxRuns, pending, hadWork, attempts>>
  /\ UNCHANGED schedLocal
  /\ UNCHANGED searchVars
  /\ UNCHANGED hourlyVars
  /\ UNCHANGED commandVars

\* lines 152-165: the embedding call fails or answers without data
P1EmbedFails ==
  /\ pqpc = "embed"
  /\ ValidTranscript(transcriptFiles[pqQueue[pending].externalId])
  /\ CatchError("embed")
  /\ UNCHANGED <<episodesFile, queuedStatus, audioFiles, transcriptFiles, embeddings, embeddingsShape,
                 maxRuns, attempts>>
  /\ UNCHANGED schedLocal
  /\ UNCHANGED searchVars
  /\ UNCHANGED hourlyVars
  /\ UNCHANGED commandVars

\* lines 152-190: the vector is computed from the transcript alone
\* (transcript.substring(0, 8000)), the record is pushed and embeddings.json saved
P1Embed ==
  /\ pqpc = "embed"
  /\ ValidTranscript(transcriptFiles[pqQueue[pending].externalId])
  /\ LET e == pqQueue[pending].externalId
         loaded == LoadEmbeddings(embeddings, embeddingsShape)
         finalId == FinalId(loaded, TopicOf(e))
     IN /\ embeddings' = Append(loaded,
                                [episodeId |-> finalId, topic |-> TopicOf(e), externalId |-> e,
                                 input |-> [metadata |-> FALSE,
                                            transcript |-> transcriptFiles[e]]])
        /\ embeddingsShape' = "object"
        /\ pqQueue' = [pqQueue EXCEPT ![pending].embeddingId = finalId]
  /\ pqpc' = "cleanup"
  /\ UNCHANGED <<episodesFile, queuedStatus, processingQueue, audioFiles, transcriptFiles,
                 pqI, maxRuns, pending, hadWork, attempts>>
  /\ UNCHANGED schedLocal
  /\ UNCHANGED searchVars
  /\ UNCHANGED hourlyVars
  /\ UNCHANGED commandVars

\* lines 196-209, 260: delete the audio and the transcript
P1Cleanup ==
  /\ pqpc = "cleanup"
  /\ audioFiles' = audioFiles \ {pqQueue[pending].externalId}
  /\ transcriptFiles' = [transcriptFiles EXCEPT ![pqQueue[pending].externalId] = "none"]
  /\ pqpc' = "complete"
  /\ UNCHANGED <<episodesFile, queuedStatus, processingQueue, embeddings, embeddingsShape,
                 pqI, maxRuns, pqQueue, pending, hadWork, attempts>>
  /\ UNCHANGED schedLocal
  /\ UNCHANGED searchVars
  /\ UNCHANGED hourlyVars
  /\ UNCHANGED commandVars

\* lines 263-269: mark the entry completed and save the queue
P1Complete ==
  /\ pqpc = "complete"
  /\ processingQueue' = [pqQueue EXCEPT ![pending].status = "completed"]
  /\ ReturnToMain(TRUE)
  /\ UNCHANGED <<episodesFile, queuedStatus, audioFiles, transcriptFiles, embeddings, embeddingsShape,
                 maxRuns, attempts>>
  /\ UNCHANGED schedLocal
  /\ UNCHANGED searchVars
  /\ UNCHANGED hourlyVars
  /\ UNCHANGED commandVars

(***************************************************************************)
(* generate-embeddings.js and transcribe.js run on their own.              *)
(***************************************************************************)
\* generate-embeddings.js imports TRANSCRIPTIONS_DIR (line 13) and reads
\* TRANSCRIPTS_DIR (lines 75-76), a name declared nowhere: evaluating it throws
TranscriptsDirDeclared == FALSE

\* CreateEpisodeEmbedding with TRANSCRIPTS_DIR declared and the service answering
CreateEpisodeEmbedding_Declared(e, transcripts) ==
  <<[episodeId |-> <<"externalId", e>>, topic |-> TopicOf(e), externalId |-> e,
     input |-> [metadata |-> TRUE, transcript |-> transcripts[e]]]>>

\* lines 70-96: createEpisodeEmbedding(episode); the text is title, description
\* and the transcript when its file exists.  <<>> when it throws, else the record
CreateEpisodeEmbedding(e, transcripts) ==
  IF TranscriptsDirDeclared
  THEN <<[episodeId |-> <<"externalId", e>>, topic |-> TopicOf(e), externalId |-> e,
          input |-> [metadata |-> TRUE, transcript |-> transcripts[e]]]>>
  ELSE <<>>

\* the records createEpisodeEmbedding returns for the episodes of eps, in order
RECURSIVE CreateAll(_, _)
CreateAll(eps, transcripts) ==
  IF eps = <<>> THEN <<>>
  ELSE CreateEpisodeEmbedding(Head(eps), transcripts) \o CreateAll(Tail(eps), transcripts)

\* transcribe.js lines 134-144, once per record: drop the stored record with
\* the same episodeId, push, write the bare array
RECURSIVE SaveAll(_, _)
SaveAll(embs, recs) ==
  IF recs = <<>> THEN embs
  ELSE SaveAll(Append(SelectSeq(embs, LAMBDA r : r.episodeId # Head(recs).episodeId),
                      Head(recs)),
               Tail(recs))

\* what transcribeEpisode leaves in `${externalId}.txt`: nothing (download or
\* transcription failed) or the text returned for response_format 'text'
\* (lines 59, 128), which has no timestamps
TranscribeResults == {"none", "plain"}

\* node scripts/transcribe.js [limit]: processAllEpisodes, lines 188-220, over
\* the first `limit` records of episodes.json (all without a limit)
TranscribeJs ==
  /\ pqpc = "off"
  /\ pc3 = "idle"
  /\ episodesFile # {}
  /\ \E toProcess \in SUBSET (episodesFile \cap QueuedEpisodes) :
     \E written \in [toProcess -> TranscribeResults] :
       LET done == {e \in toProcess : written[e] # "none"}
           after == [e \in Episodes |-> IF e \in done THEN written[e] ELSE transcriptFiles[e]]
           recs == CreateAll(SeqOfSet(done), after)
       IN /\ transcriptFiles' = after
          /\ IF recs = <<>> \/ embeddingsShape = "object"
             THEN UNCHANGED <<embeddings, embeddingsShape>>
             ELSE /\ embeddings' = SaveAll(embeddings, recs)
                  /\ embeddingsShape' = "array"
  /\ UNCHANGED <<episodesFile, queuedStatus, processingQueue, audioFiles,
                 pqpc, pqI, maxRuns, pqQueue, pending, hadWork, attempts>>
  /\ UNCHANGED schedLocal
  /\ UNCHANGED searchVars
  /\ UNCHANGED hourlyVars
  /\ UNCHANGED commandVars

\* node scripts/generate-embeddings.js: generateAllEmbeddings, lines 101-136;
\* every error is caught per episode and the array of the records made is
\* written over embeddings.json
GenerateAllEmbeddings ==
  /\ pqpc = "off"
  /\ pc3 = "idle"
  /\ episodesFile # {}
  /\ embeddings' = CreateAll(SeqOfSet(episodesFile), transcriptFiles)
  /\ embeddingsShape' = "array"
  /\ UNCHANGED <<episodesFile, queuedStatus, processingQueue, audioFiles, transcriptFiles,
                 pqpc, pqI, maxRuns, pqQueue, pending, hadWork, attempts>>
  /\ UNCHANGED schedLocal
  /\ UNCHANGED searchVars
  /\ UNCHANGED hourlyVars
  /\ UNCHANGED commandVars

\* a processOne call has claimed an entry and not yet returned
InProcessOne == pqpc \in {"lookup", "download", "transcribe", "embed", "cleanup", "complete"}

\* the process-queue.js process is stopped (killed, machine restart) between
\* two statements of processOne
PQStopped ==
  /\ InProcessOne
  /\ crashes < MaxCrashes
  /\ crashes' = crashes + 1
  /\ pqpc' = "off"
  /\ pqI' = 0
  /\ pqQueue' = <<>>
  /\ pending' = 0
  /\ UNCHANGED <<episodesFile, queuedStatus, processingQueue, audioFiles, transcriptFiles,
                 embeddings, embeddingsShape, maxRuns, hadWork, attempts>>
  /\ UNCHANGED <<queueFile, dlqFile, permanentFailFile, processedFile,
                 pc3, queue, dlq, episode, slept, sawEmpty, failedRuns, succeeded,
                 childFailure>>
  /\ UNCHANGED otherVars
  /\ UNCHANGED searchVars
  /\ UNCHANGED hourlyVars
  /\ UNCHANGED commandVars

PQInit ==
  /\ queuedStatus = {}
  /\ processingQueue = <<>>
  /\ audioFiles = {}
  /\ transcriptFiles = [e \in Episodes |-> "none"]
  /\ embeddings = <<>>
  /\ embeddingsShape = "none"
  /\ pqpc = "off"
  /\ pqI = 0
  /\ maxRuns = DefaultMaxRuns
  /\ pqQueue = <<>>
  /\ pending = 0
  /\ hadWork = "none"
  /\ attempts = <<>>

(***************************************************************************)
(* scheduler.js: the hourly scheduler (checkAndProcess, runWithRetry).     *)
(***************************************************************************)
\* lines 24-26 (MAX_RETRIES is 5 here as in scheduler-step3.js)
MAX_EPISODES_PER_TOPIC == 3
INITIAL_BACKOFF_MS == 1000
\* line 226: Max 9 episodes per run
MaxPerRun == 9

RECURSIVE Pow2(_)
Pow2(n) == IF n = 0 THEN 1 ELSE 2 * Pow2(n - 1)

\* line 115: INITIAL_BACKOFF_MS * Math.pow(2, attempt)
BackoffMs(attempt) == INITIAL_BACKOFF_MS * Pow2(attempt)

\* line 114: a wait follows every failed attempt but the last
WaitsAfter(attempt, maxRetries) == attempt < maxRetries - 1

\* runCommand (lines 134-157) rejects with 'Command timed out' or `Exit ${code}`
ErrorOf(ending) == IF ending = "timeout" THEN "Command timed out" ELSE "Exit 1"

NoCurrent == [externalId |-> 0, simplifiedId |-> <<"none", 0>>, retryCount |-> 0]

\* checkAndProcess is not running
HourlyIdle ==
  [pc |-> "idle", dlq |-> <<>>, processed |-> <<>>, allEpisodes |-> {},
   topic |-> 0, pos |-> 0, topicProcessed |-> 0, processedCount |-> 0,
   current |-> NoCurrent, attempt |-> 0, attempts |-> 0, waits |-> <<>>,
   lastError |-> "none", thrown |-> "none", runs |-> 0]

\* topics[topic] of the topic the outer loop is at (lines 206-220, 228)
TopicEps == TopicEpisodes(hourly.allEpisodes, TOPICS[hourly.topic])

\* lines 182-220: load the DLQ and the processed set, run fetch-episodes.js
\* (an error is logged and ignored), read and group episodes.json
HourlyStart ==
  /\ hourly.pc = "idle"
  /\ pc3 = "idle"
  /\ pqpc = "off"
  /\ hourly.runs < MaxHourlyRuns
  /\ \E c \in Catalogues \cup {episodesFile} :
       /\ NewerCatalogue(episodesFile, c) \/ c = episodesFile
       /\ episodesFile' = c
       /\ hourly' = [HourlyIdle EXCEPT !.pc = IF c = {} THEN "idle" ELSE "loop",
                                       !.dlq = dlqFile,
                                       !.processed = processedFile,
                                       !.allEpisodes = c,
                                       !.topic = 1, !.pos = 1,
                                       !.runs = hourly.runs + 1]
  /\ UNCHANGED <<queueFile, dlqFile, permanentFailFile, processedFile,
                 pc3, queue, dlq, episode, slept, sawEmpty, failedRuns, succeeded, crashes, childFailure>>
  /\ UNCHANGED otherVars
  /\ UNCHANGED pqVars
  /\ UNCHANGED searchVars
  /\ UNCHANGED commandVars

\* the files and the other processes, which checkAndProcess's loop control leaves alone
HourlyFrame ==
  /\ UNCHANGED schedVars
  /\ UNCHANGED otherVars
  /\ UNCHANGED pqVars
  /\ UNCHANGED searchVars
  /\ UNCHANGED commandVars

\* lines 225-226, 281: every topic is done, or 9 episodes were handled
HourlyComplete ==
  /\ hourly.pc = "loop"
  /\ hourly.topic > Len(TOPICS) \/ hourly.processedCount >= MaxPerRun
  /\ hourly' = [HourlyIdle EXCEPT !.runs = hourly.runs]
  /\ HourlyFrame

\* lines 231-233: the inner loop ends (list exhausted or a limit reached)
HourlyNextTopic ==
  /\ hourly.pc = "loop"
  /\ hourly.topic <= Len(TOPICS) /\ hourly.processedCount < MaxPerRun
  /\ \/ hourly.pos > Len(TopicEps)
     \/ hourly.topicProcessed >= MAX_EPISODES_PER_TOPIC
  /\ hourly' = [hourly EXCEPT !.topic = @ + 1, !.pos = 1, !.topicProcessed = 0]
  /\ HourlyFrame

\* the inner loop is at an episode
AtEpisode ==
  /\ hourly.pc = "loop"
  /\ hourly.topic <= Len(TOPICS) /\ hourly.processedCount < MaxPerRun
  /\ hourly.pos <= Len(TopicEps)
  /\ hourly.topicProcessed < MAX_EPISODES_PER_TOPIC

\* lines 236-237: topicNum is the position in the sorted list of the topic
HourlySimpId == SimplifiedId(TOPICS[hourly.topic], hourly.pos)

\* line 245: dlq.find(...) over the array loaded at line 182; (dlqEntry?.retryCount || 0)
HourlyRetryCount == RetryCountOf(hourly.dlq, TopicEps[hourly.pos])

\* lines 240-249: skip an episode already processed, or one whose DLQ entry
\* has retryCount >= MAX_RETRIES ('max retries exceeded')
HourlySkip ==
  /\ AtEpisode
  /\ \/ HourlySimpId \in Range(hourly.processed) \/ TranscribedHas(HourlySimpId)
     \/ MaxRetriesExceeded(HourlyRetryCount)
  /\ hourly' = [hourly EXCEPT !.pos = @ + 1]
  /\ HourlyFrame

\* lines 258-262: runWithRetry('node', ['scripts/transcribe.js', '1'], MAX_RETRIES) is called
HourlyProcess ==
  /\ AtEpisode
  /\ ~(HourlySimpId \in Range(hourly.processed) \/ TranscribedHas(HourlySimpId))
  /\ ~MaxRetriesExceeded(HourlyRetryCount)
  /\ hourly' = [hourly EXCEPT !.pc = "attempt",
                              !.current = [externalId |-> TopicEps[hourly.pos],
                                           simplifiedId |-> HourlySimpId,
                                           retryCount |-> HourlyRetryCount],
                              !.attempt = 0, !.attempts = 0, !.waits = <<>>,
                              !.lastError = "none", !.thrown = "none"]
  /\ HourlyFrame

\* lines 109-111, 264-270: an attempt resolves; runWithRetry returns, the
\* simplifiedId is added to the set and the set written to processed-episodes.json
HourlyAttemptResolves ==
  /\ hourly.pc = "attempt"
  /\ hourly.attempt < MAX_RETRIES
  /\ \E ending \in ChildEndings : Resolves(ending)
  /\ LET added == MarkProcessed(hourly.processed, hourly.current.simplifiedId)
     IN /\ processedFile' = added
        /\ hourly' = [hourly EXCEPT !.pc = "loop", !.processed = added,
                                    !.attempts = @ + 1,
                                    !.processedCount = @ + 1, !.topicProcessed = @ + 1,
                                    !.pos = @ + 1]
  /\ UNCHANGED <<episodesFile, queueFile, dlqFile, permanentFailFile,
                 pc3, queue, dlq, episode, slept, sawEmpty, failedRuns, succeeded, crashes, childFailure>>
  /\ UNCHANGED otherVars
  /\ UNCHANGED pqVars
  /\ UNCHANGED searchVars
  /\ UNCHANGED commandVars

\* lines 109-119: an attempt rejects; the error is kept, and the loop sleeps
\* backoffMs before the next attempt unless this was the last one
HourlyAttemptRejects ==
  /\ hourly.pc = "attempt"
  /\ hourly.attempt < MAX_RETRIES
  /\ \E ending \in ChildEndings :
       /\ ~Resolves(ending)
       /\ hourly' = [hourly EXCEPT !.lastError = ErrorOf(ending),
                                   !.attempts = @ + 1,
                                   !.waits = IF WaitsAfter(hourly.attempt, MAX_RETRIES)
                                             THEN Append(@, BackoffMs(hourly.attempt)) ELSE @,
                                   !.attempt = @ + 1]
  /\ HourlyFrame

\* lines 60-70: addToDLQ pushes an entry onto the DLQ it loads
AddToDLQ(d, e, r) == Append(d, [episode |-> [externalId |-> e], retryCount |-> r])

\* lines 121, 272-277: the loop is over, runWithRetry throws lastError;
\* checkAndProcess logs it and calls addToDLQ(episode, err, (dlqEntry?.retryCount || 0) + 1)
HourlyThrows ==
  /\ hourly.pc = "attempt"
  /\ hourly.attempt >= MAX_RETRIES
  /\ dlqFile' = AddToDLQ(dlqFile, hourly.current.externalId, hourly.current.retryCount + 1)
  /\ hourly' = [hourly EXCEPT !.pc = "loop", !.thrown = hourly.lastError,
                              !.processedCount = @ + 1, !.topicProcessed = @ + 1,
                              !.pos = @ + 1]
  /\ UNCHANGED <<episodesFile, queueFile, permanentFailFile, processedFile,
                 pc3, queue, dlq, episode, slept, sawEmpty, failedRuns, succeeded, crashes, childFailure>>
  /\ UNCHANGED otherVars
  /\ UNCHANGED pqVars
  /\ UNCHANGED searchVars
  /\ UNCHANGED commandVars

HourlyInit == hourly = HourlyIdle

\* dlq.json as step 3 can have left it: empty, or one entry with a retry count
StepThreeDlqs ==
  {<<>>} \cup {<<[episode |-> [externalId |-> e], retryCount |-> r]>> :
                 e \in Episodes, r \in 1..MAX_RETRIES}

(***************************************************************************)
(* runCommand of scheduler.js (lines 134-157) and of scheduler-step3.js    *)
(* (lines 37-52): a child process, a timer and the promise returned.       *)
(***************************************************************************)
\* no runCommand call has been made
NoCommand ==
  [variant |-> "none", timeout |-> 0, duration |-> 0, code |-> 0, closeDelay |-> 0,
   proc |-> "none", endedAt |-> 0, closed |-> FALSE,
   timer |-> "none", timedOut |-> FALSE,
   promise |-> "pending", error |-> "none", settleCalls |-> 0]

CommandInit == command = NoCommand

\* the timeouts passed: 60000 (scheduler.js line 191) and the default 300000
Timeouts == {60000, 300000}
\* how long the child runs when nothing stops it (ms), and the code it exits with
ChildDurations == {1000, 60000, 299000, 300000, 400000}
ExitCodes == {0, 1}
\* 'close' is emitted once the process has ended and its stdio streams are closed
CloseDelays == {0, 2000}
\* the code passed to 'close' for a child terminated by a signal
NullCode == -1

\* the promise after resolve (ok) or reject (otherwise) is called: only the
\* first call settles it
Settle(ok, err) ==
  [command EXCEPT !.promise = IF @ = "pending" THEN (IF ok THEN "resolved" ELSE "rejected") ELSE @,
                  !.error = IF command.promise = "pending" /\ ~ok THEN err ELSE @,
                  !.settleCalls = @ + 1]

\* the moment 'close' is due
CloseDue == command.endedAt + command.closeDelay

\* scheduler.js lines 141-145: timedOut = true; proc.kill(); reject(...)
\* step 3 line 42: timedOut = true; proc.kill()
TimerFires ==
  /\ command.timer = "armed"
  /\ ~(command.proc = "running" /\ command.duration < command.timeout)
  /\ ~(command.proc \in {"exited", "killed"} /\ ~command.closed /\ CloseDue < command.timeout)
  /\ LET fired == [command EXCEPT !.timer = "fired", !.timedOut = TRUE,
                                  !.proc = IF @ = "running" THEN "killed" ELSE @,
                                  !.endedAt = IF command.proc = "running" THEN command.timeout ELSE @]
     IN command' = IF command.variant = "scheduler"
                   THEN [fired EXCEPT !.promise = IF @ = "pending" THEN "rejected" ELSE @,
                                      !.error = IF command.promise = "pending"
                                                THEN "Command timed out" ELSE @,
                                      !.settleCalls = @ + 1]
                   ELSE fired
  /\ UNCHANGED schedVars
  /\ UNCHANGED otherVars
  /\ UNCHANGED pqVars
  /\ UNCHANGED searchVars
  /\ UNCHANGED hourlyVars

\* the child ends by itself, with its exit code
ChildExits ==
  /\ command.proc = "running"
  /\ ~(command.timer = "armed" /\ command.timeout < command.duration)
  /\ command' = [command EXCEPT !.proc = "exited", !.endedAt = command.duration]
  /\ UNCHANGED schedVars
  /\ UNCHANGED otherVars
  /\ UNCHANGED pqVars
  /\ UNCHANGED searchVars
  /\ UNCHANGED hourlyVars

\* the handler of 'close' ignoring timedOut
OnClose_IgnoresTimedOut(variant, timedOut, code) ==
  IF code = 0 THEN Settle(TRUE, "none") ELSE Settle(FALSE, "Exit")

\* the handler of 'close' after clearTimeout.  scheduler.js lines 152-154:
\* if (timedOut) return; resolve on code 0, else reject.  Step 3 lines 47-49:
\* reject('Timeout') if timedOut, resolve on code 0, else reject
OnClose(variant, timedOut, code) ==
  IF timedOut
  THEN IF variant = "scheduler" THEN command ELSE Settle(FALSE, "Timeout")
  ELSE IF code = 0 THEN Settle(TRUE, "none") ELSE Settle(FALSE, "Exit")

\* the 'close' event: clearTimeout(timeoutId), then the handler
Close ==
  /\ command.proc \in {"exited", "killed"}
  /\ ~command.closed
  /\ ~(command.timer = "armed" /\ command.timeout < CloseDue)
  /\ LET code == IF command.proc = "killed" THEN NullCode ELSE command.code
         after == OnClose(command.variant, command.timedOut, code)
     IN command' = [after EXCEPT !.closed = TRUE,
                                 !.timer = IF @ = "armed" THEN "cleared" ELSE @]
  /\ UNCHANGED schedVars
  /\ UNCHANGED otherVars
  /\ UNCHANGED pqVars
  /\ UNCHANGED searchVars
  /\ UNCHANGED hourlyVars

\* runCommand has been called: the child is spawned and the timer armed
Spawned(variant, timeout, duration, code, closeDelay) ==
  [NoCommand EXCEPT !.variant = variant, !.timeout = timeout, !.duration = duration,
                    !.code = code, !.closeDelay = closeDelay,
                    !.proc = "running", !.timer = "armed"]

(***************************************************************************)
(* search-chunks.js, search-playlist.js, search-and-play.js: chunk         *)
(* locators and transcript search.  Times are whole seconds; a value that  *)
(* the code halves is carried doubled until Math.round.                    *)
(***************************************************************************)
DEFAULT_CHUNK_DURATION == 300
MIN_DURATION == 120
INTRO_SKIP == 45
OUTRO_SKIP == 30
\* search-and-play.js line 166: findNaturalBoundaries skips 30 s of intro
NATURAL_INTRO_SKIP == 30

NoBoundaries == [by |-> "none", start |-> 0, end |-> 0]
NoMatch == [by |-> "none", found |-> FALSE, seconds |-> 0]

\* Math.round(x2 / 2): to the nearest integer, halves upwards
Round2(x2) == (x2 + 1) \div 2

\* search-chunks.js lines 116-147
findChunkBoundaries(estDuration, chunkDur) ==
  LET duration == IF estDuration = 0 \/ estDuration < MIN_DURATION
                  THEN MIN_DURATION ELSE estDuration
      maxPossibleEnd == duration - OUTRO_SKIP
      unclamped == INTRO_SKIP + chunkDur
      end == IF unclamped > maxPossibleEnd
             THEN Max({INTRO_SKIP + 60, maxPossibleEnd}) ELSE unclamped
      available == end - INTRO_SKIP
      start2 == 2 * INTRO_SKIP + Max({0, available - chunkDur})
  IN [by |-> "search-chunks", start |-> Round2(start2),
      end |-> Round2(2 * Min({end, maxPossibleEnd}))]

\* search-playlist.js lines 101-115
playlistFindChunkBoundaries(estDuration, chunkDur) ==
  LET minStart == INTRO_SKIP
      maxEnd == estDuration - OUTRO_SKIP
      availableDuration == maxEnd - minStart
      idealStart2 == 2 * minStart + (availableDuration - chunkDur)
  IN IF availableDuration <= chunkDur
     THEN [by |-> "search-playlist", start |-> minStart,
           end |-> Min({estDuration - OUTRO_SKIP, minStart + chunkDur})]
     ELSE [by |-> "search-playlist", start |-> Round2(idealStart2),
           end |-> Round2(idealStart2 + 2 * chunkDur)]

\* search-and-play.js lines 165-206, targetSeconds2 being twice the target
findNaturalBoundaries(targetSeconds2, totalDuration, chunkDur) ==
  LET minStart == NATURAL_INTRO_SKIP
      maxEnd == totalDuration - OUTRO_SKIP
      idealStart2 == Max({2 * minStart, Min({targetSeconds2 - chunkDur, 2 * (maxEnd - chunkDur)})})
      end2 == idealStart2 + 2 * chunkDur
      clampedEnd2 == IF end2 > 2 * maxEnd THEN 2 * maxEnd ELSE end2
      clampedStart2 == IF end2 > 2 * maxEnd
                       THEN Max({2 * minStart, 2 * maxEnd - 2 * chunkDur}) ELSE idealStart2
  IN IF maxEnd - minStart <= chunkDur
     THEN [by |-> "search-and-play", start |-> minStart,
           end |-> Min({totalDuration - OUTRO_SKIP, minStart + chunkDur})]
     ELSE [by |-> "search-and-play", start |-> Round2(clampedStart2), end |-> Round2(clampedEnd2)]

\* search-chunks.js lines 229-231: searchChunks calls the locator with r.duration
SearchChunks ==
  /\ boundaries = NoBoundaries
  /\ search' = [search EXCEPT !.boundaries = findChunkBoundaries(estimatedDuration, chunkDuration)]
  /\ UNCHANGED <<schedVars, otherVars, pqVars>>
  /\ UNCHANGED hourlyVars
  /\ UNCHANGED commandVars

\* search-playlist.js: searchPlaylist calls its locator with the estimated duration
SearchPlaylist ==
  /\ boundaries = NoBoundaries
  /\ search' = [search EXCEPT !.boundaries = playlistFindChunkBoundaries(estimatedDuration, chunkDuration)]
  /\ UNCHANGED <<schedVars, otherVars, pqVars>>
  /\ UNCHANGED hourlyVars
  /\ UNCHANGED commandVars

\* search-and-play.js lines 389-400 for a match in the description: match.seconds
\* is null, so the target is totalDuration / 2 (a duration of 0 is skipped)
SearchAndPlayDescription ==
  /\ boundaries = NoBoundaries
  /\ estimatedDuration # 0
  /\ search' = [search EXCEPT !.boundaries = findNaturalBoundaries(estimatedDuration, estimatedDuration, chunkDuration)]
  /\ UNCHANGED <<schedVars, otherVars, pqVars>>
  /\ UNCHANGED hourlyVars
  /\ UNCHANGED commandVars

\* the words of the query that count: w.length > 2
LongWords(q) == {k \in 1..Len(q) : q[k] > 2}

\* the long query words that the text of segment sg includes
Overlap(q, sg) == Cardinality(LongWords(q) \cap sg.includes)

\* part_000 lines 63-93, searchTranscript: score = overlap / queryWords.length
\* over all the query words; the first segment with the highest score is kept
\* and returned when that score is > 0.3
searchTranscript(q, segs) ==
  LET scored == {i \in 1..Len(segs) : Overlap(q, segs[i]) > 0}
      best == CHOOSE i \in scored :
                \A j \in scored :
                  \/ Overlap(q, segs[i]) > Overlap(q, segs[j])
                  \/ (Overlap(q, segs[i]) = Overlap(q, segs[j]) /\ i <= j)
  IN IF scored # {} /\ 10 * Overlap(q, segs[best]) > 3 * Len(q)
     THEN [by |-> "searchTranscript", found |-> TRUE, seconds |-> segs[best].seconds]
     ELSE [by |-> "searchTranscript", found |-> FALSE, seconds |-> 0]

\* search-and-play.js lines 120-157, findSearchInTranscript on a transcript
\* with timestamps: score = foundWords.length / queryWords.length over the long
\* words; every segment with a found word is a match, the sort is stable and
\* matches[0] is returned
findSearchInTranscript(q, segs) ==
  LET matches == {i \in 1..Len(segs) : Overlap(q, segs[i]) > 0}
      best == CHOOSE i \in matches :
                \A j \in matches :
                  \/ Overlap(q, segs[i]) > Overlap(q, segs[j])
                  \/ (Overlap(q, segs[i]) = Overlap(q, segs[j]) /\ i <= j)
  IN IF matches # {}
     THEN [by |-> "findSearchInTranscript", found |-> TRUE, seconds |-> segs[best].seconds]
     ELSE [by |-> "findSearchInTranscript", found |-> FALSE, seconds |-> 0]

\* part_000 line 176
SearchTranscript ==
  /\ match = NoMatch
  /\ search' = [search EXCEPT !.match = searchTranscript(queryWords, segments)]
  /\ UNCHANGED <<schedVars, otherVars, pqVars>>
  /\ UNCHANGED hourlyVars
  /\ UNCHANGED commandVars

\* search-and-play.js line 372
FindSearchInTranscript ==
  /\ match = NoMatch
  /\ search' = [search EXCEPT !.match = findSearchInTranscript(queryWords, segments)]
  /\ UNCHANGED <<schedVars, otherVars, pqVars>>
  /\ UNCHANGED hourlyVars
  /\ UNCHANGED commandVars

\* search-and-play.js lines 398-400: the chunk around the transcript match
FindNaturalBoundaries ==
  /\ match.by = "findSearchInTranscript"
  /\ match.found
  /\ boundaries = NoBoundaries
  /\ search' = [search EXCEPT !.boundaries = findNaturalBoundaries(2 * match.seconds, estimatedDuration, chunkDuration)]
  /\ UNCHANGED <<schedVars, otherVars, pqVars>>
  /\ UNCHANGED hourlyVars
  /\ UNCHANGED commandVars

(***************************************************************************)
(* search.js and generate-embeddings.js (searchByQuery): rank the stored   *)
(* records by cosine similarity to the query.                              *)
(***************************************************************************)
DefaultTopK == 10
NoResults == [status |-> "none", ranked |-> <<>>]
\* what a rank search that threw leaves its caller with
Threw == [status |-> "threw", ranked |-> <<>>]

RECURSIVE Dot(_, _)
Dot(a, b) == IF a = <<>> THEN 0 ELSE Head(a) * Head(b) + Dot(Tail(a), Tail(b))

\* cosineSimilarity(a, b): 0 for vectors of different lengths, else
\* dotProduct / (sqrt(normA) * sqrt(normB)), kept as its numerator and the
\* squares under the roots
cosineSimilarity(a, b) ==
  IF Len(a) # Len(b) THEN [dotProduct |-> 0, normA |-> 1, normB |-> 1]
  ELSE [dotProduct |-> Dot(a, b), normA |-> Dot(a, a), normB |-> Dot(b, b)]

\* x > y for two similarities (all norms are positive)
Greater(x, y) ==
  LET x2 == x.dotProduct * x.dotProduct * y.normA * y.normB
      y2 == y.dotProduct * y.dotProduct * x.normA * x.normB
  IN IF x.dotProduct >= 0
     THEN IF y.dotProduct >= 0 THEN x2 > y2 ELSE TRUE
     ELSE IF y.dotProduct >= 0 THEN FALSE ELSE x2 < y2

\* the similarity of the record at position i of the parsed records
Similarity(q, episodes, i) == cosineSimilarity(q, episodes[i])

\* sort((a, b) => b.similarity - a.similarity): Array.prototype.sort is stable,
\* so a record goes before exactly the records it is more similar than
RECURSIVE InsertBySimilarity(_, _, _, _)
InsertBySimilarity(sorted, i, q, episodes) ==
  IF sorted = <<>> THEN <<i>>
  ELSE IF Greater(Similarity(q, episodes, i), Similarity(q, episodes, Head(sorted)))
       THEN <<i>> \o sorted
       ELSE <<Head(sorted)>> \o InsertBySimilarity(Tail(sorted), i, q, episodes)

RECURSIVE SortBySimilarity(_, _, _)
SortBySimilarity(n, q, episodes) ==
  IF n = 0 THEN <<>>
  ELSE InsertBySimilarity(SortBySimilarity(n - 1, q, episodes), n, q, episodes)

\* slice(0, k)
Slice(sq, k) == SubSeq(sq, 1, IF k < Len(sq) THEN k ELSE Len(sq))

\* search.js lines 90-113: (embeddingsData.episodes || embeddingsData), every
\* record holding an embedding, scored, sorted and sliced to LIMIT
Search ==
  /\ results = NoResults
  /\ search' = [search EXCEPT !.results =
                  [status |-> "returned",
                   ranked |-> Slice(SortBySimilarity(Len(embeddingsData.episodes), queryEmbedding,
                                                     embeddingsData.episodes), topK)]]
  /\ UNCHANGED schedVars
  /\ UNCHANGED otherVars
  /\ UNCHANGED pqVars
  /\ UNCHANGED hourlyVars
  /\ UNCHANGED commandVars

\* generate-embeddings.js lines 160-183: the parsed file itself is mapped, so
\* for a file holding {episodes: [...]} embeddings.map is not a function
SearchByQuery ==
  /\ results = NoResults
  /\ search' = [search EXCEPT !.results =
                  IF embeddingsData.shape = "object" THEN Threw
                  ELSE [status |-> "returned",
                        ranked |-> Slice(SortBySimilarity(Len(embeddingsData.episodes),
                                                          queryEmbedding,
                                                          embeddingsData.episodes), topK)]]
  /\ UNCHANGED schedVars
  /\ UNCHANGED otherVars
  /\ UNCHANGED pqVars
  /\ UNCHANGED hourlyVars
  /\ UNCHANGED commandVars

\* the embeddings the service returns for the stored texts and for the query
Vectors == {<<1, 0>>, <<1, 1>>, <<0, 1>>, <<-1, 0>>}
QueryVectors == {<<1, 0>>, <<1, 1>>}
\* the two layouts of embeddings.json (process-queue.js line 52; transcribe.js
\* line 143 and generate-embeddings.js line 131)
Shapes == {"object", "array"}
TopKs == {1, 2, DefaultTopK}
StoredEmbeddings == UNION {[1..n -> Vectors] : n \in 0..MaxStored}

\* no search has been made
NoSearch ==
  [estimatedDuration |-> 0, chunkDuration |-> DEFAULT_CHUNK_DURATION,
   boundaries |-> NoBoundaries, queryWords |-> <<>>, segments |-> <<>>,
   match |-> NoMatch,
   embeddingsData |-> [shape |-> "object", episodes |-> <<>>], queryEmbedding |-> <<>>,
   topK |-> DefaultTopK, results |-> NoResults]

SearchInit == search = NoSearch

Durations == 1..MaxDuration
WindowLengths == 1..MaxWindow

\* a word of two characters and one of six ('cartel')
WordLengths == {2, 6}
Queries == UNION {[1..n -> WordLengths] : n \in 1..MaxQueryWords}

\* the start times of the segments 1..MaxSegments: 310 s, 520 s, then every 210 s
SegmentSeconds(i) == 310 + 210 * (i - 1)
Transcripts(q) ==
  UNION {{segs \in [1..n -> [seconds : {SegmentSeconds(i) : i \in 1..n},
                             includes : SUBSET (1..Len(q))]] :
            \A i \in 1..n : segs[i].seconds = SegmentSeconds(i)} : n \in 0..MaxSegments}

\* the fallback of estimateDuration (search-chunks.js line 107)
FallbackDuration == 1800

vars == <<schedVars, otherVars, pqVars, searchVars, hourlyVars, commandVars>>

OtherInit ==
  other = [pc |-> "idle", queue |-> <<>>, dlq |-> <<>>, episode |-> NoEpisode, overlaps |-> 0]

Init == SchedInit /\ OtherInit /\ PQInit /\ SearchInit /\ HourlyInit /\ CommandInit

\* the chunk locators applied to every duration and window length
InitChunks ==
  /\ SchedInit /\ OtherInit /\ PQInit /\ HourlyInit /\ CommandInit
  /\ \E d \in Durations, w \in WindowLengths :
       search = [NoSearch EXCEPT !.estimatedDuration = d, !.chunkDuration = w]

ChunksNext == SearchChunks \/ SearchPlaylist \/ SearchAndPlayDescription

SpecChunks == InitChunks /\ [][ChunksNext]_vars

\* the transcript search applied to every query and transcript, the default
\* window and an episode of FallbackDuration seconds
InitTranscript ==
  /\ SchedInit /\ OtherInit /\ PQInit /\ HourlyInit /\ CommandInit
  /\ \E q \in Queries : \E segs \in Transcripts(q) :
       search = [NoSearch EXCEPT !.estimatedDuration = FallbackDuration,
                                 !.queryWords = q, !.segments = segs]

TranscriptNext == SearchTranscript \/ FindSearchInTranscript \/ FindNaturalBoundaries

SpecTranscript == InitTranscript /\ [][TranscriptNext]_vars

\* the rank searches applied to every store of 0..MaxStored records, in both
\* layouts, every query vector and limit
InitRank ==
  /\ SchedInit /\ OtherInit /\ PQInit /\ HourlyInit /\ CommandInit
  /\ \E sh \in Shapes, eps \in StoredEmbeddings, q \in QueryVectors, k \in TopKs :
       search = [NoSearch EXCEPT !.embeddingsData = [shape |-> sh, episodes |-> eps],
                                 !.queryEmbedding = q, !.topK = k]

RankNext == Search \/ SearchByQuery

SpecRank == InitRank /\ [][RankNext]_vars

\* the hourly scheduler run MaxHourlyRuns times, from a DLQ step 3 can have left
InitHourly ==
  /\ episodesFile = {}
  /\ queueFile = <<>>
  /\ dlqFile \in StepThreeDlqs
  /\ permanentFailFile = <<>>
  /\ processedFile = <<>>
  /\ pc3 = "idle"
  /\ queue = <<>>
  /\ dlq = <<>>
  /\ episode = NoEpisode
  /\ slept = 0
  /\ sawEmpty = FALSE
  /\ failedRuns = [e \in Episodes |-> 0]
  /\ succeeded = {}
  /\ crashes = 0
  /\ childFailure = "none"
  /\ OtherInit /\ PQInit /\ SearchInit /\ HourlyInit /\ CommandInit

HourlyNext ==
  \/ HourlyStart \/ HourlyComplete \/ HourlyNextTopic \/ HourlySkip \/ HourlyProcess
  \/ HourlyAttemptResolves \/ HourlyAttemptRejects \/ HourlyThrows

SpecHourly == InitHourly /\ [][HourlyNext]_vars

\* both runCommand functions called with every timeout, on a child of every
\* duration, exit code and close delay; timers fire and events are delivered
InitCommand ==
  /\ SchedInit /\ OtherInit /\ PQInit /\ SearchInit /\ HourlyInit
  /\ \E variant \in {"scheduler", "step3"}, timeout \in Timeouts, duration \in ChildDurations,
        code \in ExitCodes, closeDelay \in CloseDelays :
       command = Spawned(variant, timeout, duration, code, closeDelay)

CommandNext == TimerFires \/ ChildExits \/ Close

SpecCommand == InitCommand /\ [][CommandNext]_vars /\ WF_vars(CommandNext)

\* the scheduler steps, every step-3 run going to its end
Next ==
  \/ Step1 \/ Step2
  \/ S3QueueEmpty \/ S3Load
  \/ S3SavePermanentFail \/ S3PermanentFailSaveDlq \/ S3PermanentFailSaveQueue
  \/ S3Backoff \/ S3RunCommand
  \/ S3MarkProcessed \/ S3SuccessSaveQueue \/ S3SuccessSaveDlq
  \/ S3FailSaveDlq \/ S3FailSaveQueue

Spec == Init /\ [][Next]_vars

\* a step-3 process may also be stopped part-way
NextStopped == Next \/ S3Stopped

SpecStopped == Init /\ [][NextStopped]_vars

\* the scheduler steps with the orchestrator invoked by cron every 30 minutes
NextCron ==
  \/ Next
  \/ CronStep3 \/ OtherRunCommand
  \/ OtherMarkProcessed \/ OtherSuccessSaveQueue \/ OtherSuccessSaveDlq
  \/ OtherFailSaveDlq \/ OtherFailSaveQueue

SpecCron == Init /\ [][NextCron]_vars

\* master-trigger, fetch-episodes and process-queue, one process at a time
PQNext ==
  \/ FetchEpisodes \/ MasterTrigger
  \/ PQStart \/ PQMainEnd
  \/ P1NoPending \/ P1Claim \/ P1NotFound \/ P1Found
  \/ P1DownloadExists \/ P1DownloadFails \/ P1DownloadNeverSettles
  \/ P1TranscribeExists \/ P1TranscribeFails \/ P1Transcribe
  \/ P1EmbedSkipped \/ P1EmbedFails \/ P1Embed
  \/ P1Cleanup \/ P1Complete

SpecPQ == Init /\ [][PQNext]_vars

\* the writers of embeddings.json, one process at a time: process-queue.js fed
\* by master-trigger, transcribe.js and generate-embeddings.js.  Without
\* fetch-episodes.js no record leaves episodes.json, so the branch of
\* processOne for an episode that is not found (P1NotFound) is never taken.
StoreNext ==
  \/ MasterTrigger
  \/ TranscribeJs \/ GenerateAllEmbeddings
  \/ PQStart \/ PQMainEnd
  \/ P1NoPending \/ P1Claim \/ P1Found
  \/ P1DownloadExists \/ P1DownloadFails \/ P1DownloadNeverSettles
  \/ P1TranscribeExists \/ P1TranscribeFails \/ P1Transcribe
  \/ P1EmbedSkipped \/ P1EmbedFails \/ P1Embed
  \/ P1Cleanup \/ P1Complete

SpecStore == Init /\ [][StoreNext]_vars

\* the same, where a process-queue.js process may also be stopped part-way
StoreNextStopped == StoreNext \/ PQStopped

SpecStoreStopped == Init /\ [][StoreNextStopped]_vars

\* the steps of a process-queue.js process, its start included
PQRun ==
  \/ PQStart \/ PQMainEnd
  \/ P1NoPending \/ P1Claim \/ P1NotFound \/ P1Found
  \/ P1DownloadExists \/ P1DownloadFails \/ P1DownloadNeverSettles
  \/ P1TranscribeExists \/ P1TranscribeFails \/ P1Transcribe
  \/ P1EmbedSkipped \/ P1EmbedFails \/ P1Embed
  \/ P1Cleanup \/ P1Complete

\* a running process-queue.js keeps running, and one is started again and
\* again once none is running
SpecPQFair == SpecPQ /\ WF_vars(PQRun)


(***************************************************************************)
(* Properties of the scheduler stores.                                     *)
(***************************************************************************)
InMigration == pc3 \in {"permfail_dlq", "permfail_queue"}

StoresHolding(e) ==
  (IF e \in QueueIds(queueFile) THEN 1 ELSE 0)
  + (IF e \in DlqIds(dlqFile) THEN 1 ELSE 0)
  + (IF e \in PermanentFailIds(permanentFailFile) THEN 1 ELSE 0)

C3_Original ==
  pc3 = "idle" =>
    \A e \in Episodes :
      e \in PermanentFailIds(permanentFailFile)
        => (e \notin DlqIds(dlqFile) /\ e \notin QueueIds(queueFile))

\* C4: the DLQ write of the failure path leaves the episode with one entry
\* whose retryCount is the old one (0 when it had none) plus 1, and no step
\* lowers the retryCount of an episode that keeps its DLQ entry.
C4_RetryCountByOne ==
  [][/\ (pc3 = "fail_dlq" /\ pc3' = "fail_queue")
          => /\ CountDlq(dlqFile', episode.externalId) = 1
             /\ RetryCountOf(dlqFile', episode.externalId)
                  = RetryCountOf(dlqFile, episode.externalId) + 1
     /\ \A e \in Episodes :
          (e \in DlqIds(dlqFile) /\ e \in DlqIds(dlqFile'))
            => RetryCountOf(dlqFile', e) >= RetryCountOf(dlqFile, e)]_vars

C4_Witness ==
  /\ pc3 = "fail_queue"
  /\ RetryCountOf(dlq, episode.externalId) = 2
  /\ RetryCountOf(dlqFile, episode.externalId) = 3

\* C5: between runs, an episode with six finished step-3 runs in a row, none
\* successful, is in permanent-fail.json (once) and in neither dlq.json nor
\* scheduler-queue.json; with fewer such runs it is not in permanent-fail.json.
C5_SixthRun ==
  pc3 = "idle" =>
    \A e \in Episodes :
      /\ failedRuns[e] <= MAX_RETRIES + 1
      /\ failedRuns[e] = MAX_RETRIES + 1
           => /\ CountPermanentFail(permanentFailFile, e) = 1
              /\ e \notin DlqIds(dlqFile)
              /\ e \notin QueueIds(queueFile)
      /\ failedRuns[e] < MAX_RETRIES + 1
           => e \notin PermanentFailIds(permanentFailFile)

C5_Witness ==
  /\ pc3 = "idle"
  /\ \E e \in Episodes : failedRuns[e] = MAX_RETRIES + 1

\* C6: the queue write of the failure path keeps every entry: the failed head
\* becomes the last element and the other entries keep their order.
C6_RequeuedAtBack ==
  [][(pc3 = "fail_queue" /\ pc3' = "idle")
       => /\ Len(queueFile') = Len(queueFile)
          /\ queueFile'[Len(queueFile')] = episode
          /\ episode = queueFile[1]
          /\ \A i \in 1..(Len(queueFile) - 1) : queueFile'[i] = queueFile[i + 1]]_vars

C6_Witness ==
  /\ pc3 = "idle"
  /\ Len(queueFile) >= 2
  /\ ~queueFile[Len(queueFile)].inDlq
  /\ queueFile[Len(queueFile)].externalId \in DlqIds(dlqFile)

\* C7 as stated: after a successful run the entry is not in the queue, no DLQ
\* entry has its externalId, its simplifiedId is in processed-episodes.json
\* exactly once, and every later build-queue pass skips the episode.
C7_Original ==
  \A s \in succeeded :
    /\ s.externalId \notin QueueIds(queueFile)
    /\ s.externalId \notin DlqIds(dlqFile)
    /\ Cardinality({i \in 1..Len(processedFile) : processedFile[i] = s.simplifiedId}) = 1

\* C8 as stated: whenever step 3 starts the child for an entry whose recorded
\* retryCount r is > 0, it has slept BACKOFF_MS[min(r-1, 4)] in this run; the
\* wait is non-decreasing in r and at most 8 h.
C8_Original ==
  /\ (pc3 = "child" /\ retryCount > 0)
       => slept = BACKOFF_MS[Min({retryCount - 1, 4}) + 1]
  /\ \A r \in 1..MAX_RETRIES :
       BackoffFor(r) <= BackoffFor(r + 1) /\ BackoffFor(r) <= 28800000

(***************************************************************************)
(* Properties of the processing queue.                                     *)
(***************************************************************************)
TransientErrors == {"download", "transcribe", "embed"}

C10_ClaimsFirstPending ==
  /\ [](InProcessOne => processingQueue[pending].status = "processing")
  /\ [][/\ (pqpc = "loop" /\ pqpc' = "lookup")
             => /\ processingQueue[pending'].status = "pending"
                /\ \A j \in 1..(pending' - 1) : processingQueue[j].status # "pending"
                /\ processingQueue' = [processingQueue EXCEPT ![pending'].status = "processing"]
        /\ (pqpc = "loop" /\ pqI < maxRuns /\ pqpc' # "lookup" /\ pqpc' # pqpc)
             => /\ \A j \in 1..Len(processingQueue) : processingQueue[j].status # "pending"
                /\ processingQueue' = processingQueue
                /\ hadWork' = "false"
        /\ InProcessOne
             => /\ Len(processingQueue') = Len(processingQueue)
                /\ \A j \in 1..Len(processingQueue) :
                     j # pending => processingQueue'[j] = processingQueue[j]]_vars

C10_Witness ==
  /\ pqpc = "lookup"
  /\ pending >= 2
  /\ \E j \in (pending + 1)..Len(processingQueue) : processingQueue[j].status = "pending"

Processing(q) == {i \in 1..Len(q) : q[i].status = "processing"}

\* C11 as stated: with a single process-queue runner, in every reachable
\* state at most one entry of processing-queue.json has status processing.
C11_Original == Cardinality(Processing(processingQueue)) <= 1

\* C12 as stated: every entry that processOne marks processing eventually
\* reaches status completed or error; none stays in processing forever.
C12_Original ==
  \A i \in 1..MaxQueueLen :
    (i \in Processing(processingQueue))
      ~> (i <= Len(processingQueue) /\ processingQueue[i].status \in {"completed", "error"})

\* C13 as stated: whenever download, transcription or embedding of the
\* episode fails in the child, step 3 takes its failure path (DLQ entry written,
\* entry requeued) and does not mark the episode processed.
C13_Original ==
  childFailure \in StageFailures => pc3 \in {"fail_dlq", "fail_queue"}

\* a processOne call is past the catalogue lookup, in its try block
InPipeline == pqpc \in {"download", "transcribe", "embed", "cleanup", "complete"}

\* C14 as stated: after every terminal outcome of a processOne pipeline run
\* (completed with an embedding, completed with embed skipped, error in any
\* step) the audio file and the transcript file of that episode do not exist.
C14_Original ==
  [][(InPipeline /\ pqpc' = "loop")
       => /\ pqQueue[pending].externalId \notin audioFiles'
          /\ transcriptFiles'[pqQueue[pending].externalId] = "none"]_vars

NoEmbeddingId == <<"", 0>>

\* C16: at the embed step, when the transcript file is missing or has no
\* timestamp marker, the step adds no record and goes on to cleanup (no call
\* that can fail); the entry is then saved as completed with no embedding id,
\* a completed entry is never changed again, and no DLQ or permanent-failure
\* entry is written.
C16_EmbedSkipped ==
  /\ [](dlqFile = <<>> /\ permanentFailFile = <<>>)
  /\ [][/\ (pqpc = "embed" /\ pqpc' # pqpc
            /\ transcriptFiles[pqQueue[pending].externalId] # "timestamped")
             => /\ pqpc' = "cleanup"
                /\ embeddings' = embeddings
                /\ embeddingsShape' = embeddingsShape
                /\ pqQueue'[pending].embeddingId = NoEmbeddingId
        /\ (pqpc = "cleanup" /\ pqpc' # pqpc)
             => (pqpc' = "complete" /\ pqQueue' = pqQueue /\ pending' = pending)
        /\ (pqpc = "complete" /\ pqpc' # pqpc)
             => /\ processingQueue'[pending].status = "completed"
                /\ processingQueue'[pending].error = ""
                /\ processingQueue'[pending].embeddingId = pqQueue[pending].embeddingId
        /\ \A i \in 1..Len(processingQueue) :
             processingQueue[i].status = "completed"
               => (processingQueue'[i] = processingQueue[i] /\ attempts'[i] = 1)]_vars

C16_Witness ==
  /\ pqpc = "loop"
  /\ hadWork = "true"
  /\ \E i \in 1..Len(processingQueue) :
       /\ processingQueue[i].status = "completed"
       /\ processingQueue[i].embeddingId = NoEmbeddingId
       /\ attempts[i] = 1

\* C17: a processOne call whose claimed entry is not in episodes.json saves
\* the entry as error 'Episode not found' and returns, touching no audio,
\* transcript or embedding; the entry has been claimed once and no later call
\* claims or changes it.
C17_NotFoundOnce ==
  /\ [](\A i \in 1..Len(processingQueue) :
          processingQueue[i].error = "Episode not found"
            => (processingQueue[i].status = "error" /\ attempts[i] = 1))
  /\ [][/\ (pqpc = "lookup" /\ pqpc' # pqpc
            /\ pqQueue[pending].externalId \notin episodesFile)
             => /\ pqpc' = "loop"
                /\ processingQueue'[pending].status = "error"
                /\ processingQueue'[pending].error = "Episode not found"
                /\ audioFiles' = audioFiles
                /\ transcriptFiles' = transcriptFiles
                /\ embeddings' = embeddings
        /\ \A i \in 1..Len(processingQueue) :
             processingQueue[i].error = "Episode not found"
               => (processingQueue'[i] = processingQueue[i] /\ attempts'[i] = attempts[i])]_vars

C17_Witness ==
  /\ pqpc = "lookup"
  /\ \E i \in 1..(pending - 1) : processingQueue[i].error = "Episode not found"

\* the place of a step in processOne
StageNo(pc) ==
  CASE pc = "lookup" -> 1
    [] pc = "download" -> 2
    [] pc = "transcribe" -> 3
    [] pc = "embed" -> 4
    [] pc = "cleanup" -> 5
    [] pc = "complete" -> 6
    [] OTHER -> 0

\* C18: within one processOne call the steps are entered in the order
\* download, transcribe, embed, cleanup, each from the step before it and for
\* the same entry, so none runs twice or before the previous one has returned;
\* download with the audio file present and transcribe with the transcript
\* file present return without a call, leaving every file as it was.
C18_StepOrder ==
  [][/\ (InProcessOne' /\ pqpc' # pqpc)
          => \/ (pqpc = "loop" /\ pqpc' = "lookup")
             \/ (InProcessOne /\ StageNo(pqpc') = StageNo(pqpc) + 1 /\ pending' = pending)
     /\ (pqpc = "download" /\ pqpc' # pqpc /\ pqQueue[pending].externalId \in audioFiles)
          => (pqpc' = "transcribe" /\ audioFiles' = audioFiles)
     /\ (pqpc = "transcribe" /\ pqpc' # pqpc
         /\ transcriptFiles[pqQueue[pending].externalId] # "none")
          => (pqpc' = "embed" /\ transcriptFiles' = transcriptFiles)
     /\ (pqpc = "cleanup" /\ pqpc' # pqpc)
          => /\ pqQueue[pending].externalId \notin audioFiles'
             /\ transcriptFiles'[pqQueue[pending].externalId] = "none"]_vars

C18_Witness ==
  /\ pqpc = "complete"
  /\ pqQueue[pending].embeddingId # NoEmbeddingId
  /\ pqQueue[pending].externalId \notin audioFiles
  /\ Len(embeddings) >= 1

\* C20 as stated: build-queue gives an episode the same simplifiedId on every
\* pass, also when episodes were added to the catalogue in between; an episode
\* that a run completed is not enqueued again under another simplifiedId.
C20_Original ==
  /\ [](\A s \in succeeded : \A i \in 1..Len(queueFile) :
          queueFile[i].externalId = s.externalId
            => queueFile[i].simplifiedId = s.simplifiedId)
  /\ [][\A i \in 1..Len(queueFile) : \A j \in 1..Len(queueFile') :
          queueFile[i].externalId = queueFile'[j].externalId
            => queueFile[i].simplifiedId = queueFile'[j].simplifiedId]_vars

(***************************************************************************)
(* Permanent failure.                                                      *)
(***************************************************************************)
\* C21 as stated: once an episode has an entry in permanent-fail.json, no
\* later build-queue pass puts it in scheduler-queue.json, no later step-3 run
\* takes it up, and it never has a second permanent-fail entry.
C21_Original ==
  /\ [](\A e \in Episodes : CountPermanentFail(permanentFailFile, e) <= 1)
  /\ [][\A e \in PermanentFailIds(permanentFailFile) :
          /\ (pc3 = "idle" /\ pc3' = "idle" /\ queueFile' # queueFile)
               => e \notin QueueIds(queueFile')
          /\ (pc3 = "idle" /\ pc3' # "idle") => episode'.externalId # e]_vars

(***************************************************************************)
(* Step 3 under cron.                                                      *)
(***************************************************************************)
\* C22 as stated: a step-3 process never sleeps a backoff wait of a cron
\* period or more, and no step-3 process is still running when the
\* orchestrator's next scheduled invocation starts step 3.
C22_Original ==
  /\ slept < CronPeriodMs
  /\ ~(pc3 # "idle" /\ otherPc # "idle")

Located == boundaries # NoBoundaries

\* the locators that work from the estimated duration alone
MetadataAnchored == boundaries.by \in {"search-chunks", "search-playlist"}

\* estimatedDuration - 75 s, what is left without intro and outro
RemainingSpan == estimatedDuration - INTRO_SKIP - OUTRO_SKIP

\* C24 as stated: for every duration and window length W each chunk locator
\* returns end > start and end - start <= W + 30 s.
C24_Original ==
  Located => /\ boundaries.end > boundaries.start
             /\ boundaries.end - boundaries.start <= chunkDuration + 30

\* C25 as stated: every chunk of a metadata-anchored locator has start >= 45 s
\* and end <= estimatedDuration - 30 s, for the duration it was called with.
C25_Original ==
  (Located /\ MetadataAnchored)
    => /\ boundaries.start >= INTRO_SKIP
       /\ boundaries.end <= estimatedDuration - OUTRO_SKIP

\* C26 as stated: when estimatedDuration - 75 s is shorter than W,
\* findChunkBoundaries returns exactly start = 45 and end = estimatedDuration - 30.
C26_Original ==
  (Located /\ MetadataAnchored /\ RemainingSpan < chunkDuration)
    => /\ boundaries.start = INTRO_SKIP
       /\ boundaries.end = estimatedDuration - OUTRO_SKIP

\* C27 as stated: when the window is clamped because the remaining span is
\* shorter than W, search-chunks' findChunkBoundaries returns a chunk of at
\* least 60 s.
C27_Original ==
  (boundaries.by = "search-chunks" /\ RemainingSpan < chunkDuration)
    => boundaries.end - boundaries.start >= 60

\* C28 as stated: when estimatedDuration - 75 s is at least W, the
\* metadata-anchored locator returns a window of length W centred in that span:
\* start - 45 and (estimatedDuration - 30) - end differ by at most 1 s.
C28_Original ==
  (Located /\ MetadataAnchored /\ RemainingSpan >= chunkDuration)
    => LET before == boundaries.start - INTRO_SKIP
           after == (estimatedDuration - OUTRO_SKIP) - boundaries.end
       IN /\ boundaries.end - boundaries.start = chunkDuration
          /\ before - after <= 1
          /\ after - before <= 1

(***************************************************************************)
(* Properties of the transcript search.                                    *)
(***************************************************************************)
\* the segments whose score, as C29 defines it, is the highest
BestScored(q, segs) ==
  {i \in 1..Len(segs) : \A j \in 1..Len(segs) : Overlap(q, segs[i]) >= Overlap(q, segs[j])}

\* C29 as stated: a segment's score is (long query words it contains) / (long
\* query words); the search returns a highest-scoring segment when its score
\* is > 0.3 and no match otherwise.
C29_Original ==
  match # NoMatch =>
    LET best == BestScored(queryWords, segments)
        above == \E i \in best :
                   10 * Overlap(queryWords, segments[i]) > 3 * Cardinality(LongWords(queryWords))
    IN /\ match.found <=> above
       /\ match.found => \E i \in best : segments[i].seconds = match.seconds

\* C30 as stated: with a transcript match at T the chunk starts at the start
\* time of a segment, the first one at or after T - W/2, and ends at the last
\* segment start within start + W + 30 s; for segments at 310 s and 520 s,
\* W = 300 and the match at 310 s the start is 310.
C30_Original ==
  (Located /\ boundaries.by = "search-and-play" /\ match.found)
    => LET from == {i \in 1..Len(segments) : 2 * segments[i].seconds >= 2 * match.seconds - chunkDuration}
           first == CHOOSE i \in from : \A j \in from : segments[i].seconds <= segments[j].seconds
           within == {i \in 1..Len(segments) :
                        /\ segments[i].seconds >= boundaries.start
                        /\ segments[i].seconds <= boundaries.start + chunkDuration + 30}
       IN /\ from # {}
          /\ boundaries.start = segments[first].seconds
          /\ \E i \in within :
               /\ boundaries.end = segments[i].seconds
               /\ \A j \in within : segments[j].seconds <= segments[i].seconds

(***************************************************************************)
(* C31: a rank search over n stored records returns min(topK, n) records,  *)
(* ordered by non-increasing similarity to the query, records of equal     *)
(* similarity in their stored order.                                       *)
(***************************************************************************)
Ranked ==
  LET r == results.ranked
      eps == embeddingsData.episodes
  IN /\ Len(r) = (IF topK < Len(eps) THEN topK ELSE Len(eps))
     /\ \A i, j \in 1..Len(r) : i < j =>
           /\ ~Greater(Similarity(queryEmbedding, eps, r[j]), Similarity(queryEmbedding, eps, r[i]))
           /\ ~Greater(Similarity(queryEmbedding, eps, r[i]), Similarity(queryEmbedding, eps, r[j]))
                => r[i] < r[j]
     /\ \A i \in 1..Len(r) : \A k \in 1..Len(eps) :
           ~Greater(Similarity(queryEmbedding, eps, k), Similarity(queryEmbedding, eps, r[i]))
           \/ k \in {r[j] : j \in 1..Len(r)}

C31_Original ==
  results # NoResults => results.status = "returned" /\ Ranked

(***************************************************************************)
(* C32: a process-queue run keeps processing until the queue is empty:     *)
(* when the run ends (main returns, or the process ends with main waiting) *)
(* no entry of processing-queue.json has status pending.                   *)
(***************************************************************************)
C32_Original ==
  [][(pqpc # "off" /\ pqpc' = "off")
       => \A i \in 1..Len(processingQueue') : processingQueue'[i].status # "pending"]_vars

(***************************************************************************)
(* C33: runWithRetry retries a failing command after waits of 1 s, 2 s,    *)
(* 4 s, 8 s and 16 s, each wait followed by a further attempt, and         *)
(* rethrows the last error when all attempts fail.                         *)
(***************************************************************************)
C33_Original ==
  hourly.thrown # "none"
    => /\ hourly.waits = <<1000, 2000, 4000, 8000, 16000>>
       /\ hourly.attempts = Len(hourly.waits) + 1
       /\ hourly.thrown = hourly.lastError

(***************************************************************************)
(* C34: a spawned command still running at its timeout is killed and       *)
(* reported to the caller as a failure exactly once; once the timer has    *)
(* fired it is never reported as success, even when close with exit code 0 *)
(* arrives afterwards, and the caller's promise always settles.            *)
(***************************************************************************)
C34_TimeoutReportedOnce ==
  /\ [](command.timedOut =>
          /\ command.proc # "running"
          /\ command.promise # "resolved"
          /\ command.settleCalls <= 1)
  /\ [](command.timedOut /\ command.promise # "pending" => command.settleCalls = 1)
  /\ <>(command.promise # "pending")

\* the timer fired on a child that had exited with code 0, close arrived
\* afterwards, and the promise is rejected
C34_Witness ==
  /\ command.timedOut /\ command.closed
  /\ command.proc = "exited" /\ command.code = 0
  /\ command.promise = "rejected" /\ command.settleCalls = 1

(***************************************************************************)
(* C35: search-playlist's findChunkBoundaries and search-chunks'           *)
(* findChunkBoundaries return the same (start, end) for every estimated    *)
(* duration and every window length.                                       *)
(***************************************************************************)
SameChunk(a, b) == a.start = b.start /\ a.end = b.end

C35_Original ==
  MetadataAnchored
    => SameChunk(findChunkBoundaries(estimatedDuration, chunkDuration),
                 playlistFindChunkBoundaries(estimatedDuration, chunkDuration))

(***************************************************************************)
(* C36: when scheduler-queue.json or dlq.json is rewritten by another run  *)
(* while a step-3 run is waiting, the waiting run's later write keeps      *)
(* those changes: no entry added or removed in between is lost or brought  *)
(* back.                                                                   *)
(***************************************************************************)
\* a write of ids `after` over a file holding `now`, by a run that had read `read`
KeepsChanges(read, now, after) ==
  /\ \A e \in now \ read : e \in after
  /\ \A e \in read \ now : e \notin after

C36_Original ==
  [][otherPc # "idle"
       => /\ queueFile' # queueFile
               => KeepsChanges(QueueIds(otherQueue), QueueIds(queueFile), QueueIds(queueFile'))
          /\ dlqFile' # dlqFile
               => KeepsChanges(DlqIds(otherDlq), DlqIds(dlqFile), DlqIds(dlqFile'))]_vars

(***************************************************************************)
(* C37: dlq.json holds at most one entry per externalId after any sequence *)
(* of failures recorded by step 3 and by the hourly scheduler's addToDLQ.  *)
(***************************************************************************)
C37_Original == \A e \in Episodes : CountDlq(dlqFile, e) <= 1

(***************************************************************************)
(* C38: in the hourly scheduler an episode whose processing fails on every *)
(* run is eventually skipped: each failing run raises by one the           *)
(* retryCount that checkAndProcess reads for it, and once that has reached *)
(* MAX_RETRIES the episode is not attempted again.                         *)
(***************************************************************************)
\* runWithRetry threw in this step and the failure was recorded
HourlyFailed == hourly.pc = "attempt" /\ hourly'.pc = "loop" /\ dlqFile' # dlqFile

C38_Original ==
  [][/\ HourlyFailed
          => RetryCountOf(dlqFile', hourly.current.externalId) = hourly.current.retryCount + 1
     /\ (hourly.pc = "loop" /\ hourly'.pc = "attempt")
          => hourly'.current.retryCount < MAX_RETRIES]_vars

(***************************************************************************)
(* C39: the episode that a step-3 run (or an hourly-scheduler iteration)   *)
(* downloads and transcribes is the episode of the queue entry it          *)
(* selected, the one it then marks processed or records in the DLQ.        *)
(***************************************************************************)
\* fetch-episodes.js lines 188-234 writes episodes.json topic by topic, in the
\* order of TOPICS: its first record is an episode of the first topic found
FirstRecords(catalogue) ==
  {e \in catalogue :
     \A k \in 1..Len(TOPICS) :
       TopicOf(e) = TOPICS[k] => \A j \in 1..(k - 1) : TopicEpisodes(catalogue, TOPICS[j]) = <<>>}

\* transcribe.js lines 194-195, 224: `transcribe.js 1` processes
\* episodes.slice(0, 1), whatever entry its caller selected
ChildTranscribes(selected) == selected \in FirstRecords(episodesFile)

C39_Original ==
  [][/\ (pc3 = "child" /\ pc3' # "child") => ChildTranscribes(episode.externalId)
     /\ (hourly.pc = "attempt" /\ hourly'.attempts = hourly.attempts + 1)
          => ChildTranscribes(hourly.current.externalId)]_vars

(***************************************************************************)
(* C40: saving embedding records leaves every previously stored record of  *)
(* other episodes in the store, whichever pipeline wrote those records:    *)
(* process-queue.js, or transcribe.js and generate-embeddings.js with      *)
(* createEpisodeEmbedding.                                                 *)
(***************************************************************************)
\* embeddings.json is written in this step
StoreSaved == embeddings' # embeddings \/ embeddingsShape' # embeddingsShape

\* the episodes that have a record after the step which they had not before
NewlySaved == {r.externalId : r \in Range(embeddings') \ Range(embeddings)}

====
